---- MODULE Spec2Model ----
(***************************************************************************)
(* A model of os-brick-go's Fibre Channel connector: the property          *)
(* normalizer, candidate path computation, the polling loop of             *)
(* ConnectVolume, DisconnectVolume, ExtendVolume and the flush policy.     *)
(*                                                                         *)
(* Go strings are modelled as sequences of one-character strings, so that  *)
(* strings.ToLower, filepath.Split, fmt.Sprintf and the regular expression *)
(* of getPossibleHostPathPrefix are computed, not assumed.                 *)
(***************************************************************************)
EXTENDS Integers, Sequences, FiniteSets, TLC

VARIABLES
    pc,        \* position of the running operation
    props,     \* the caller's connection descriptor (mutated in place)
    devInfo,   \* the deviceInfo argument of DisconnectVolume
    host,      \* the host: /dev/disk/by-path, device validity, HBAs
    cv,        \* locals of the running operation
    result,    \* what the operation returned
    calls,     \* the external effects of the operation, in order
    pure       \* input and output of a pure function under test

vars == <<pc, props, devInfo, host, cv, result, calls, pure>>

-----------------------------------------------------------------------------
(* Bounds of the model *)

\* longest WWN list of a descriptor given to the normalizer
MaxWwns == 2
\* longest LUN list of a descriptor given to the normalizer
MaxLuns == 2

-----------------------------------------------------------------------------
(* Strings *)

W1U == <<"2","0","2","1","0","0","0","2","A","C","0","0","3","8","3","D">>
W1L == <<"2","0","2","1","0","0","0","2","a","c","0","0","3","8","3","d">>
W2L == <<"2","0","2","2","0","0","0","2","a","c","0","0","3","8","3","d">>
W9L == <<"2","1","0","1","0","0","1","b","3","2","a","0","8","c","8","4">>
INI1U == <<"1","0","0","0","1","0","6","0","4","B","0","1","0","4","5","9">>
INI1L == <<"1","0","0","0","1","0","6","0","4","b","0","1","0","4","5","9">>
INI2L == <<"1","0","0","0","1","0","6","0","4","b","0","1","0","4","5","d">>
Lun1 == <<"1">>
Lun2 == <<"2">>

\* a mutant of ToLower: the case of every letter is swapped
ToLowerSwapsCase(s) ==
    LET swap == [A |-> "a", B |-> "b", C |-> "c", D |-> "d", E |-> "e",
                 F |-> "f", a |-> "A", b |-> "B", c |-> "C", d |-> "D",
                 e |-> "E", f |-> "F"]
    IN  [i \in 1..Len(s) |->
            IF s[i] \in DOMAIN swap THEN swap[s[i]] ELSE s[i]]

\* strings.ToLower (the letters of a WWN are hexadecimal digits)
ToLower(s) ==
    LET lower == [A |-> "a", B |-> "b", C |-> "c", D |-> "d", E |-> "e",
                  F |-> "f"]
    IN  [i \in 1..Len(s) |->
            IF s[i] \in DOMAIN lower THEN lower[s[i]] ELSE s[i]]

\* strings.HasPrefix
HasPrefix(s, p) == Len(p) <= Len(s) /\ SubSeq(s, 1, Len(p)) = p

\* strings.Contains
Contains(s, sub) ==
    \E i \in 1..(Len(s) - Len(sub) + 1) : SubSeq(s, i, i + Len(sub) - 1) = sub

-----------------------------------------------------------------------------
(* Dynamically typed values: map[string]interface{} *)

Nil == [k |-> "nil", v |-> <<>>]
Str(s) == [k |-> "string", v |-> s]
StrList(l) == [k |-> "[]string", v |-> l]
StrListMap(m) == [k |-> "map[string][]string", v |-> m]

\* m[key]: the nil interface when the key is absent
Get(m, key) == IF key \in DOMAIN m THEN m[key] ELSE Nil
\* m[key] = val
Put(m, key, val) ==
    [x \in DOMAIN m \cup {key} |-> IF x = key THEN val ELSE m[x]]

EmptyMap == [x \in {} |-> Nil]

-----------------------------------------------------------------------------
(* The property normalizer *)

\* for k, v := range itMap { for _, port := range v { lowItMap[lower(k)] =
\* append(lowItMap[lower(k)], lower(port)) } }, the keys visited in order ord
RECURSIVE LowerItMap(_, _, _)
LowerItMap(itMap, ord, acc) ==
    IF ord = <<>> THEN acc
    ELSE LET key == Head(ord)
             lk == ToLower(key)
             ports == [i \in 1..Len(itMap[key]) |-> ToLower(itMap[key][i])]
             old == IF lk \in DOMAIN acc THEN acc[lk] ELSE <<>>
             acc2 == IF ports = <<>> THEN acc
                     ELSE [x \in DOMAIN acc \cup {lk} |->
                              IF x = lk THEN old \o ports ELSE acc[x]]
         IN  LowerItMap(itMap, Tail(ord), acc2)

\* for _, t := range targets { wwpnLunMap[t[0]] = t[1] }
RECURSIVE WwpnLunMap(_, _)
WwpnLunMap(targets, acc) ==
    IF targets = <<>> THEN acc
    ELSE LET t == Head(targets)
         IN  WwpnLunMap(Tail(targets),
                 [x \in DOMAIN acc \cup {t[1]} |->
                     IF x = t[1] THEN t[2] ELSE acc[x]])

\* initTargets: the LUNs of the target ports the LUN table knows, in order
RECURSIVE InitTargets(_, _)
InitTargets(targetWwpns, wwpnLunMap) ==
    IF targetWwpns = <<>> THEN <<>>
    ELSE (IF Head(targetWwpns) \in DOMAIN wwpnLunMap
            THEN <<wwpnLunMap[Head(targetWwpns)]>> ELSE <<>>)
         \o InitTargets(Tail(targetWwpns), wwpnLunMap)

\* a mutant of PairedCase: the emptiness check is forgotten
PairedCaseNoEmptyCheck(luns, wwns) == Len(luns) = Len(wwns)

\* len(luns) == len(wwns) && len(luns) > 0
PairedCase(luns, wwns) == Len(luns) = Len(wwns) /\ Len(luns) > 0

\* the WWNs the descriptor holds: target_wwns, else target_wwn as a list or
\* as one string
WwnsOf(connectionProperties) ==
    LET targetWwn == Get(connectionProperties, "target_wwn")
        targetWwns == Get(connectionProperties, "target_wwns")
    IN  IF targetWwns # Nil THEN targetWwns.v
        ELSE IF targetWwn.k = "[]string" THEN targetWwn.v
        ELSE IF targetWwn.k = "string" THEN <<targetWwn.v>>
        ELSE <<>>

\* the lower-cased WWNs are stored back under the key they were read from
StoreWwns(connectionProperties, wwns) ==
    IF Get(connectionProperties, "target_wwns") # Nil
      THEN Put(connectionProperties, "target_wwns", StrList(wwns))
    ELSE IF Get(connectionProperties, "target_wwn") # Nil
      THEN Put(connectionProperties, "target_wwn", StrList(wwns))
    ELSE connectionProperties

\* the LUNs the descriptor holds: target_luns, else target_lun as a string
LunsOf(connectionProperties) ==
    LET targetLun == Get(connectionProperties, "target_lun")
        targetLuns == Get(connectionProperties, "target_luns")
    IN  IF targetLuns # Nil THEN targetLuns.v
        ELSE IF targetLun.k = "string" THEN <<targetLun.v>>
        ELSE <<>>

\* the targets of the paired case (zip) and of the shared-LUN case
MakeTargets(luns, wwns) ==
    IF PairedCase(luns, wwns)
      THEN [i \in 1..Len(wwns) |-> <<wwns[i], luns[i]>>]
      ELSE [i \in 1..Len(wwns) |-> <<wwns[i], luns[1]>>]

\* the lower-cased initiator_target_map and the initiator_target_lun_map
\* derived from it are stored
StoreItMaps(connectionProperties, lowItMap, wwpnLunMap) ==
    Put(Put(connectionProperties, "initiator_target_map", StrListMap(lowItMap)),
        "initiator_target_lun_map",
        StrListMap([ini \in DOMAIN lowItMap |->
                       InitTargets(lowItMap[ini], wwpnLunMap)]))

\* If there is an initiator_target_map we can update it too; ord is the
\* order in which Go ranges over it
UpdateItMap(connectionProperties, targets, ord) ==
    IF Get(connectionProperties, "initiator_target_map").k = "map[string][]string"
      THEN StoreItMaps(connectionProperties,
               LowerItMap(connectionProperties["initiator_target_map"].v, ord,
                          EmptyMap),
               WwpnLunMap(targets, EmptyMap))
      ELSE connectionProperties

\* what the normalizer gives: the error, the returned map (the nil map on
\* error) and the argument as mutated in place
NormalizedAs(connectionProperties) ==
    [err |-> "", ret |-> connectionProperties, arg |-> connectionProperties]

\* addTargetsToConnectionProperties from the cardinality check on
AddTargets(connectionProperties, wwns, luns, ord) ==
    IF PairedCase(luns, wwns) \/ (Len(luns) = 1 /\ Len(wwns) > 1)
      THEN NormalizedAs(
             UpdateItMap(Put(connectionProperties, "targets",
                             [k |-> "[]Target", v |-> MakeTargets(luns, wwns)]),
                         MakeTargets(luns, wwns), ord))
      ELSE [err |-> "validation", ret |-> EmptyMap,
            arg |-> connectionProperties]

\* addTargetsToConnectionProperties once the WWNs are lower-cased
AddTargetsLowered(connectionProperties, wwns, ord) ==
    AddTargets(StoreWwns(connectionProperties, wwns), wwns,
               LunsOf(StoreWwns(connectionProperties, wwns)), ord)

\* addTargetsToConnectionProperties
addTargetsToConnectionProperties(connectionProperties, ord) ==
    AddTargetsLowered(connectionProperties,
                      [i \in 1..Len(WwnsOf(connectionProperties)) |->
                          ToLower(WwnsOf(connectionProperties)[i])], ord)

\* the orders in which the initiator_target_map can be ranged over
ItMapOrders(cp) ==
    IF Get(cp, "initiator_target_map").k = "map[string][]string"
      THEN LET keys == DOMAIN cp["initiator_target_map"].v
           IN  {o \in [1..Cardinality(keys) -> keys] :
                   \A i, j \in 1..Cardinality(keys) : i # j => o[i] # o[j]}
      ELSE {<<>>}

-----------------------------------------------------------------------------
(* Descriptors given to the normalizer *)

SeqsUpTo(S, n) == UNION {[1..m -> S] : m \in 0..n}

\* a descriptor from optional fields (Nil: the key is absent)
Descriptor(fields) ==
    [x \in {y \in DOMAIN fields : fields[y] # Nil} |-> fields[x]]

NormalizerInputs ==
    { Descriptor([target_wwns |-> ws, target_wwn |-> w,
                  target_luns |-> ls, target_lun |-> l,
                  initiator_target_map |-> im]) :
        ws \in {Nil} \cup {StrList(s) : s \in SeqsUpTo({W1U, W2L}, MaxWwns)},
        w \in {Nil} \cup {Str(s) : s \in {W1U, W2L}}
                    \cup {StrList(s) : s \in SeqsUpTo({W1U, W2L}, MaxWwns)},
        ls \in {Nil} \cup {StrList(s) : s \in SeqsUpTo({Lun1, Lun2}, MaxLuns)},
        l \in {Nil} \cup {Str(s) : s \in {Lun1, Lun2}},
        im \in {Nil} \cup {StrListMap(m) : m \in
                { [x \in {INI1U, INI2L} |->
                      IF x = INI1U THEN <<W1U>> ELSE <<W2L, W9L>>],
                  [x \in {INI1U, INI1L} |->
                      IF x = INI1U THEN <<W1U>> ELSE <<W2L>>] }} }

-----------------------------------------------------------------------------
(* Paths and the flush policy *)

ByPathDir == <<"/","d","e","v","/","d","i","s","k","/","b","y","-","p","a","t","h","/">>
PlatformPrefix == <<"p","l","a","t","f","o","r","m","-","4",".","p","c","i","e","-">>
Pci1 == <<"0","0","0","0",":","0","5",":","0","0",".","3">>
Pci2 == <<"0","0","0","0",":","2","1",":","0","0",".","2">>
DevSda == <<"/","d","e","v","/","s","d","a">>
DevSdb == <<"/","d","e","v","/","s","d","b">>
SlashDev == <<"/","d","e","v">>

\* fmt.Sprintf("/dev/disk/by-path/%spci-%s-fc-%s-lun-%v", prefix, pci, wwn, lun)
HostDevicePath(prefix, pci, wwn, lun) ==
    ByPathDir \o prefix \o <<"p","c","i","-">> \o pci
              \o <<"-","f","c","-">> \o wwn \o <<"-","l","u","n","-">> \o lun

\* strings.LastIndex(path, "/"), counted from 1; 0 when there is none
LastSlash(path) ==
    IF \E i \in 1..Len(path) : path[i] = "/"
      THEN CHOOSE i \in 1..Len(path) :
              path[i] = "/" /\ \A j \in (i + 1)..Len(path) : path[j] # "/"
      ELSE 0

\* dir, _ := filepath.Split(path): everything up to and including the final
\* separator
SplitDir(path) == SubSeq(path, 1, LastSlash(path))

\* filepath.EvalSymlinks on a file system given as the function from each
\* existing path to its real target
EvalSymlinks(links, path) ==
    IF path \in DOMAIN links THEN [path |-> links[path], err |-> ""]
    ELSE [path |-> <<>>, err |-> "no such file or directory"]

\* a mutant of SkipIndividualFlush: both conditions are required
SkipIndividualFlushBoth(pathUsed, wasMultipath) ==
    pathUsed = <<>> /\ wasMultipath

\* pathUsed == "" || wasMultipath
SkipIndividualFlush(pathUsed, wasMultipath) ==
    pathUsed = <<>> \/ wasMultipath

\* a mutant of FlushDecision: && in the place of ||
FlushDecisionAnd(rPath, rPathUsed) ==
    rPathUsed = rPath /\ SplitDir(rPathUsed) # SlashDev

\* rPathUsed == rPath || dir != "/dev"
FlushDecision(rPath, rPathUsed) ==
    rPathUsed = rPath \/ SplitDir(rPathUsed) # SlashDev

\* RequiresFlush; resolved lists the paths given to filepath.EvalSymlinks
RequiresFlush(links, devicePath, pathUsed, wasMultipath) ==
    IF SkipIndividualFlush(pathUsed, wasMultipath)
      THEN [flush |-> FALSE, err |-> "", resolved |-> <<>>]
    ELSE LET r1 == EvalSymlinks(links, devicePath)
             r2 == EvalSymlinks(links, pathUsed)
         IN  IF r1.err # ""
               THEN [flush |-> FALSE, err |-> "failed get realpath",
                     resolved |-> <<devicePath>>]
             ELSE IF r2.err # ""
               THEN [flush |-> FALSE, err |-> "failed get realpath",
                     resolved |-> <<devicePath, pathUsed>>]
             ELSE [flush |-> FlushDecision(r1.path, r2.path), err |-> "",
                   resolved |-> <<devicePath, pathUsed>>]

-----------------------------------------------------------------------------
(* LUN normalization *)

HexDigits == <<"0","1","2","3","4","5","6","7","8","9","a","b","c","d","e","f">>

\* the value of a decimal digit, -1 for any other character
DigitValue(c) ==
    IF \E i \in 1..10 : HexDigits[i] = c
      THEN (CHOOSE i \in 1..10 : HexDigits[i] = c) - 1 ELSE -1

RECURSIVE AtoiDigits(_, _)
AtoiDigits(s, acc) ==
    IF s = <<>> THEN acc
    ELSE AtoiDigits(Tail(s), acc * 10 + DigitValue(Head(s)))

\* strconv.Atoi: an optional sign, then digits only
Atoi(s) ==
    LET signed == s # <<>> /\ Head(s) \in {"+", "-"}
        body == IF signed THEN Tail(s) ELSE s
    IN  IF body = <<>> \/ \E i \in 1..Len(body) : DigitValue(body[i]) < 0
          THEN [ok |-> FALSE, n |-> 0]
          ELSE [ok |-> TRUE,
                n |-> IF signed /\ Head(s) = "-"
                        THEN 0 - AtoiDigits(body, 0) ELSE AtoiDigits(body, 0)]

\* an int printed by %v
RECURSIVE Itoa(_)
Itoa(n) ==
    IF n < 0 THEN <<"-">> \o Itoa(0 - n)
    ELSE IF n < 10 THEN <<HexDigits[n + 1]>>
    ELSE Itoa(n \div 10) \o <<HexDigits[(n % 10) + 1]>>

\* %04x of a value below 0x10000
Hex4(n) ==
    << HexDigits[((n \div 4096) % 16) + 1], HexDigits[((n \div 256) % 16) + 1],
       HexDigits[((n \div 16) % 16) + 1], HexDigits[(n % 16) + 1] >>

IntVal(n) == [k |-> "int", v |-> n]

\* formatLunID
formatLunID(x) ==
    IF x.k = "int"
      THEN IF x.v < 256 THEN [err |-> "", lun |-> IntVal(x.v)]
           ELSE [err |-> "",
                 lun |-> Str(<<"0","x">> \o Hex4(x.v % 65536)
                             \o Hex4((x.v \div 65536) % 65536)
                             \o <<"0","0","0","0","0","0","0","0">>)]
    ELSE IF x.k = "string"
      THEN IF Atoi(x.v).ok THEN [err |-> "", lun |-> IntVal(Atoi(x.v).n)]
           ELSE [err |-> "lun_id cannot convert to int", lun |-> Nil]
    ELSE [err |-> "lun_id should be int value", lun |-> Nil]

\* ProcessLunID of a single LUN (a Device carries one LUN, a string)
ProcessLunID(lunIDs) == formatLunID(lunIDs)

\* a LUN printed by %v
FormatLun(lun) == IF lun.k = "int" THEN Itoa(lun.v) ELSE lun.v

-----------------------------------------------------------------------------
(* HBAs and candidate paths *)

\* the HBAs as GetFCHBAsInfo returns them
HBA1 == [port_name |-> INI1L, node_name |-> <<"2","0","0","0","1","0","6","0","4","b","0","1","0","4","5","9">>,
         host_device |-> <<"h","o","s","t","2">>, device_path |-> <<"/","s","y","s","/","d","e","v","i","c","e","s","/","p","c","i","0","0","0","0",":","0","0","/","0","0","0","0",":","0","0",":","0","3",".","0","/","0","0","0","0",":","0","5",":","0","0",".","3","/","h","o","s","t","2","/","f","c","_","h","o","s","t","/","h","o","s","t","2">>]
HBA2 == [port_name |-> INI2L, node_name |-> <<"2","0","0","0","1","0","6","0","4","b","0","1","0","4","5","d">>,
         host_device |-> <<"h","o","s","t","3">>, device_path |-> <<"/","s","y","s","/","d","e","v","i","c","e","s","/","p","c","i","0","0","0","0",":","2","0","/","0","0","0","0",":","2","0",":","0","3",".","0","/","0","0","0","0",":","2","1",":","0","0",".","2","/","n","e","t","/","e","n","s","2","f","2","/","c","t","l","r","_","2","/","h","o","s","t","3","/","f","c","_","h","o","s","t","/","h","o","s","t","3">>]

\* strings.Split(s, sep) for a one-character separator: the k-th segment
\* lies between the (k-1)-th and the k-th separator
Split(s, sep) ==
    LET at == {i \in 1..Len(s) : s[i] = sep}
    IN  [k \in 1..(Cardinality(at) + 1) |->
            LET b == CHOOSE x \in {0} \cup at :
                        Cardinality({j \in at : j <= x}) = k - 1
                later == {j \in at \cup {Len(s) + 1} : j > b}
                e == CHOOSE x \in later : \A y \in later : x <= y
            IN  SubSeq(s, b + 1, e - 1)]

\* GetFCHBAs, the loop over the lines of systool's output: two empty lines
\* in a row close the HBA that is being filled, a line key = value adds to it
RECURSIVE GetFCHBAsLoop(_, _, _, _)
GetFCHBAsLoop(lines, lastLine, hba, hbas) ==
    IF lines = <<>> THEN hbas
    ELSE LET space(c) == c \in {" ", "\t", "\r", "\n"}
             \* strings.TrimSpace
             TrimSpace(t) ==
                 LET in == {i \in 1..Len(t) : ~space(t[i])}
                 IN  IF in = {} THEN <<>>
                     ELSE SubSeq(t, CHOOSE i \in in : \A j \in in : i <= j,
                                    CHOOSE i \in in : \A j \in in : i >= j)
             \* strings.ReplaceAll(t, old, "") for a one-character old
             Without(t, old) == SelectSeq(t, LAMBDA c : c # old)
             line == TrimSpace(Head(lines))
             val == Split(line, "=")
         IN  IF line = <<>> /\ lastLine = <<>>
               THEN IF hba # EmptyMap
                      THEN GetFCHBAsLoop(Tail(lines), line, EmptyMap,
                                         Append(hbas, hba))
                      ELSE GetFCHBAsLoop(Tail(lines), line, hba, hbas)
             ELSE IF Len(val) = 2
               THEN GetFCHBAsLoop(Tail(lines), line,
                        Put(hba, Without(TrimSpace(val[1]), " "),
                            Without(TrimSpace(val[2]), "\"")),
                        hbas)
             ELSE GetFCHBAsLoop(Tail(lines), line, hba, hbas)

\* GetFCHBAs for the output out of systool -c fc_host -v; slicing off the
\* two header lines panics when there are fewer lines
GetFCHBAs(out) ==
    IF out = <<>> THEN [panic |-> FALSE, hbas |-> <<>>]
    ELSE LET lines == Split(out, "\n")
         IN  IF Len(lines) < 2 THEN [panic |-> TRUE, hbas |-> <<>>]
             ELSE [panic |-> FALSE,
                   hbas |-> GetFCHBAsLoop(SubSeq(lines, 3, Len(lines)),
                                          <<>>, EmptyMap, <<>>)]

\* getPCINum: the segment before the first one that starts with net or host
\* (a sysfs device path is absolute, so that segment is never the first)
getPCINum(hba) ==
    LET devicePaths == Split(hba.device_path, "/")
        hits == {i \in 1..Len(devicePaths) :
                    \/ HasPrefix(devicePaths[i], <<"n","e","t">>)
                    \/ HasPrefix(devicePaths[i], <<"h","o","s","t">>)}
    IN  IF hits = {} THEN <<>>
        ELSE devicePaths[(CHOOSE i \in hits : \A j \in hits : i <= j) - 1]

\* getPossibleDevices: (pci_id, wwn, lun) for every HBA and target
RECURSIVE getPossibleDevices(_, _)
getPossibleDevices(hbas, targets) ==
    IF hbas = <<>> THEN <<>>
    ELSE LET pciNum == getPCINum(Head(hbas))
         IN  (IF pciNum # <<>>
                THEN [i \in 1..Len(targets) |->
                        <<pciNum, <<"0","x">> \o ToLower(targets[i][1]),
                          targets[i][2]>>]
                ELSE <<>>)
             \o getPossibleDevices(Tail(hbas), targets)

LowerAlnum == {"a","b","c","d","e","f","g","h","i","j","k","l","m","n","o","p","q","r","s","t","u","v","w","x","y","z","0","1","2","3","4","5","6","7","8","9"}

\* n characters of [a-z0-9] at position i
AlnumAt(s, i, n) ==
    i + n - 1 <= Len(s) /\ \A j \in i..(i + n - 1) : s[j] \in LowerAlnum

\* the literal lit at position i
LitAt(s, i, lit) ==
    i + Len(lit) - 1 <= Len(s) /\ SubSeq(s, i, i + Len(lit) - 1) = lit

\* pci-[a-z0-9]{4}:[a-z0-9]{2}:[a-z0-9]{2}.[a-z0-9]+-fc-0x[a-z0-9]{16}-lun-[a-z0-9]+
\* matches at position i
FcPatternAt(s, i) ==
    /\ LitAt(s, i, <<"p","c","i","-">>)
    /\ AlnumAt(s, i + 4, 4)
    /\ LitAt(s, i + 8, <<":">>)
    /\ AlnumAt(s, i + 9, 2)
    /\ LitAt(s, i + 11, <<":">>)
    /\ AlnumAt(s, i + 12, 2)
    /\ i + 14 <= Len(s)
    /\ i + 15 <= Len(s)
    /\ LET \* where the longest run of [a-z0-9] from i + 15 on ends
           e == CHOOSE x \in (i + 14)..Len(s) :
                    /\ \A j \in (i + 15)..x : s[j] \in LowerAlnum
                    /\ x = Len(s) \/ s[x + 1] \notin LowerAlnum
       IN  /\ e >= i + 15
           /\ LitAt(s, e + 1, <<"-","f","c","-","0","x">>)
           /\ AlnumAt(s, e + 7, 16)
           /\ LitAt(s, e + 23, <<"-","l","u","n","-">>)
           /\ AlnumAt(s, e + 28, 1)

\* reg.FindStringSubmatch(p): the greedy (.*) takes everything before the
\* last place where the rest of the pattern matches
FcEntryPrefix(name) ==
    LET at == {i \in 1..Len(name) : FcPatternAt(name, i)}
    IN  IF at = {} THEN [ok |-> FALSE, prefix |-> <<>>]
        ELSE [ok |-> TRUE,
              prefix |-> SubSeq(name, 1,
                            (CHOOSE i \in at : \A j \in at : j <= i) - 1)]

\* the name of a /dev/disk/by-path entry
EntryName(path) == SubSeq(path, Len(ByPathDir) + 1, Len(path))

\* getPossibleHostPathPrefix on the directory holding the entries byPath:
\* the prefix of the first entry that matches (the entries of one host are
\* named alike, so which one is read first makes no difference)
getPossibleHostPathPrefix(byPath) ==
    LET matching == {p \in byPath : FcEntryPrefix(EntryName(p)).ok}
    IN  IF matching = {}
          THEN [prefix |-> <<>>, err |-> "no matched path found"]
          ELSE [prefix |-> FcEntryPrefix(EntryName(CHOOSE p \in matching : TRUE)).prefix,
                err |-> ""]

\* getHostDevices, the branch for a candidate that does not resolve: probe
\* the prefix; on failure drop the candidate (continue), else use the prefix
MissingCandidate(devs, byPath) ==
    LET p == getPossibleHostPathPrefix(byPath)
        d == Head(devs)
    IN  IF p.err # ""
          THEN [skip |-> TRUE, prefix |-> p.prefix, path |-> <<>>]
          ELSE [skip |-> FALSE, prefix |-> p.prefix,
                path |-> HostDevicePath(p.prefix, d[1], d[2],
                            FormatLun(ProcessLunID(Str(d[3])).lun))]

\* getHostDevices: the loop over the possible devices, prefix carried along
RECURSIVE getHostDevicesLoop(_, _, _, _)
getHostDevicesLoop(devs, byPath, prefix, acc) ==
    IF devs = <<>> THEN [err |-> "", paths |-> acc]
    ELSE LET d == Head(devs)
             l == ProcessLunID(Str(d[3]))
             hostDevice == HostDevicePath(prefix, d[1], d[2], FormatLun(l.lun))
             m == MissingCandidate(devs, byPath)
         IN  IF l.err # "" THEN [err |-> l.err, paths |-> <<>>]
             ELSE IF hostDevice \notin byPath
               THEN getHostDevicesLoop(Tail(devs), byPath, m.prefix,
                        IF m.skip THEN acc ELSE Append(acc, m.path))
             ELSE getHostDevicesLoop(Tail(devs), byPath, prefix,
                        Append(acc, hostDevice))

getHostDevices(possibleDevs, byPath) ==
    getHostDevicesLoop(possibleDevs, byPath, <<>>, <<>>)

\* getPossibleVolumePaths
getPossibleVolumePaths(targets, hbas, byPath) ==
    getHostDevices(getPossibleDevices(hbas, targets), byPath)

-----------------------------------------------------------------------------
(* RunWithRetry *)

DeviceScanAttemptsDefault == 3
WaitForPathAttempts == 3
WaitForRWAttempts == 5
FlushAttempts == 3

\* a mutant of RetryStart: the first call of exec waits for the ticker
RetryStartWaiting == [tries |-> 1, phase |-> "loop"]

\* tries := 1, before the immediate first call of exec
RetryStart == [tries |-> 1, phase |-> "first"]

\* a mutant of RetryExhausted: one more round before giving up
RetryExhaustedLate(r, maxRetry) == r.phase = "loop" /\ r.tries > maxRetry

\* the ticker fires with tries >= maxRetry: RunWithRetry returns false
RetryExhausted(r, maxRetry) == r.phase = "loop" /\ r.tries >= maxRetry

\* the next thing RunWithRetry does is to call exec
RetryCallsExec(r, maxRetry) ==
    r.phase = "first" \/ (r.phase = "loop" /\ ~RetryExhausted(r, maxRetry))

\* exec has returned ok: return true, or enter the loop, or count the try
RetryAfterExec(r, ok) ==
    IF ok THEN [r EXCEPT !.phase = "true"]
    ELSE IF r.phase = "first" THEN [r EXCEPT !.phase = "loop"]
    ELSE [r EXCEPT !.tries = r.tries + 1]

\* RunWithRetry run to its end, for an exec that returns true from its
\* okFrom-th call on. The result holds what RunWithRetry returned and how
\* often exec was called.
RECURSIVE RunWithRetryFrom(_, _, _, _)
RunWithRetryFrom(r, maxRetry, okFrom, n) ==
    IF r.phase = "true" THEN [ok |-> TRUE, execs |-> n]
    ELSE IF RetryExhausted(r, maxRetry) THEN [ok |-> FALSE, execs |-> n]
    ELSE RunWithRetryFrom(RetryAfterExec(r, n + 1 >= okFrom), maxRetry,
                          okFrom, n + 1)

RunWithRetry(maxRetry, okFrom) ==
    RunWithRetryFrom(RetryStart, maxRetry, okFrom, 0)

-----------------------------------------------------------------------------
(* The host rescan *)

Event(op, arg) == [op |-> op, arg |-> arg]

\* hostDevice[4:] when len(hostDevice) > 4
HostNumber(hostDevice) ==
    IF Len(hostDevice) > 4 THEN SubSeq(hostDevice, 5, Len(hostDevice))
    ELSE hostDevice

\* getHBAChannelSCSITargetLun. fcTransport holds, for a host number and a
\* target port, the (channel, target id) of /sys/class/fc_transport/
\* target<host>:<channel>:<id>/port_name. The initiator_target_lun_map the
\* connector stores is a map[string][]string, which the assertion to
\* map[string]interface{} rejects, so all targets are looked for.
RECURSIVE HBAChannelTargetLunLoop(_, _, _, _, _)
HBAChannelTargetLunLoop(hostNumber, targets, fcTransport, ctls, lunNotFound) ==
    IF targets = <<>> THEN [ctls |-> ctls, lunNotFound |-> lunNotFound]
    ELSE LET wwpn == Head(targets)[1]
             lun == Head(targets)[2]
             found == <<hostNumber, wwpn>> \in DOMAIN fcTransport
         IN  HBAChannelTargetLunLoop(hostNumber, Tail(targets), fcTransport,
                 IF found
                   THEN Append(ctls, fcTransport[<<hostNumber, wwpn>>] \o <<lun>>)
                   ELSE ctls,
                 IF found THEN lunNotFound ELSE lunNotFound \cup {lun})

getHBAChannelSCSITargetLun(hba, connectionProperties, fcTransport) ==
    LET lunMap == Get(connectionProperties, "initiator_target_lun_map")
        targets ==
            IF /\ "initiator_target_map" \in DOMAIN connectionProperties
               /\ lunMap.k = "map[string]interface{}"
               /\ hba.port_name \in DOMAIN lunMap.v
              THEN lunMap.v[hba.port_name]
              ELSE connectionProperties["targets"].v
    IN  HBAChannelTargetLunLoop(HostNumber(hba.host_device), targets,
                                fcTransport, <<>>, {})

\* a set of LUNs as the list of wildcard triples, in some order
RECURSIVE WildcardTriples(_)
WildcardTriples(luns) ==
    IF luns = {} THEN <<>>
    ELSE LET l == CHOOSE x \in luns : TRUE
         IN  <<<<<<"-">>, <<"-">>, l>>>> \o WildcardTriples(luns \ {l})

\* the writes to scan control files for the entries of process
RECURSIVE ScanWrites(_)
ScanWrites(process) ==
    IF process = <<>> THEN <<>>
    ELSE LET hba == Head(process).hba
             ctls == Head(process).ctls
         IN  [i \in 1..Len(ctls) |->
                 Event("scan", hba.host_device \o <<":">> \o ctls[i][1]
                       \o <<" ">> \o ctls[i][2] \o <<" ">> \o ctls[i][3])]
             \o ScanWrites(Tail(process))

\* a mutant of BroadScan: the descriptor is not asked
BroadScanAlways(connProperties) == TRUE

\* broadScan: true unless enable_wildcard_scan says otherwise
BroadScan(connProperties) ==
    IF "enable_wildcard_scan" \in DOMAIN connProperties
      THEN connProperties["enable_wildcard_scan"].v
      ELSE TRUE

\* RescanHosts: the loop over the HBAs; the entries of process are written
\* at the end of every round
RECURSIVE RescanHostsLoop(_, _, _, _, _, _)
RescanHostsLoop(hbas, connProperties, fcTransport, process, skipped, writes) ==
    IF hbas = <<>> THEN writes
    ELSE LET hba == Head(hbas)
             r == getHBAChannelSCSITargetLun(hba, connProperties, fcTransport)
             broadScan == BroadScan(connProperties)
             process1 == IF Len(r.ctls) > 0
                           THEN Append(process, [hba |-> hba, ctls |-> r.ctls])
                           ELSE process
             skipped1 == IF Len(r.ctls) = 0 /\ broadScan /\ Len(process) = 0
                           THEN Append(skipped,
                                  [hba |-> hba,
                                   ctls |-> WildcardTriples(r.lunNotFound)])
                           ELSE skipped
             process2 == IF Len(process1) = 0 THEN skipped1 ELSE process1
         IN  RescanHostsLoop(Tail(hbas), connProperties, fcTransport,
                             process2, skipped1, writes \o ScanWrites(process2))

RescanHosts(hbas, connProperties, fcTransport) ==
    <<Event("RescanHosts", <<>>)>>
    \o RescanHostsLoop(hbas, connProperties, fcTransport, <<>>, <<>>, <<>>)

-----------------------------------------------------------------------------
(* Multipath discovery *)

DevMapperDir == <<"/","d","e","v","/","m","a","p","p","e","r","/">>

\* WaitForPath for a path that exists from its after-th existence check on
\* (after = 1: at once): one check, then RunWithRetry with three more
WaitForPath(after) ==
    IF after <= 1 THEN [ok |-> TRUE, checks |-> 1]
    ELSE LET r == RunWithRetry(WaitForPathAttempts, after - 1)
         IN  [ok |-> r.ok, checks |-> 1 + r.execs]

\* FindMultipathDevicePath
FindMultipathDevicePath(deviceWwn, uuidAfter, mapperAfter) ==
    IF WaitForPath(uuidAfter).ok
      THEN [path |-> <<"/","d","e","v","/","d","i","s","k","/","b","y","-","i","d","/","d","m","-","u","u","i","d","-","m","p","a","t","h","-">> \o deviceWwn, err |-> ""]
    ELSE IF WaitForPath(mapperAfter).ok
      THEN [path |-> DevMapperDir \o deviceWwn, err |-> ""]
    ELSE [path |-> <<>>,
          err |-> "couldn't find a valid multipath device path"]

\* WaitForRW, the loop over the lines of lsblk's output; mpErr: the
\* command multipath -r fails
RECURSIVE WaitForRWLoop(_, _, _)
WaitForRWLoop(blkdevs, deviceWwn, mpErr) ==
    IF blkdevs = <<>> THEN [err |-> "", calls |-> <<>>]
    ELSE LET blkdevParts == Split(Head(blkdevs), " ")
             ro == blkdevParts[Len(blkdevParts)]
             name == blkdevParts[1]
             roi == Atoi(ro)
         IN  IF ~roi.ok THEN [err |-> "strconv.Atoi", calls |-> <<>>]
             ELSE IF Contains(name, deviceWwn) /\ roi.n = 1
               THEN [err |-> IF mpErr THEN "multipath -r failed" ELSE "",
                     calls |-> <<Event("multipath -r", <<>>)>>]
             ELSE WaitForRWLoop(Tail(blkdevs), deviceWwn, mpErr)

\* WaitForRW for the output out of lsblk -o NAME,RO -l -n (lsblkErr: the
\* command fails)
WaitForRW(deviceWwn, out, lsblkErr, mpErr) ==
    IF lsblkErr THEN [err |-> "lsblk failed", calls |-> <<>>]
    ELSE WaitForRWLoop(Split(out, "\n"), deviceWwn, mpErr)

\* connProperties["access_mode"] is present and is not "ro"
WaitsForRW(connProperties) ==
    /\ "access_mode" \in DOMAIN connProperties
    /\ connProperties["access_mode"] # Str(<<"r","o">>)

\* a mutant of StillReadOnly: the exhausted wait is an error
StillReadOnlyIsError(success) ==
    IF success THEN "" ELSE "block device is still read-only"

\* if !success { log.Printf(...) }: the exhausted wait is logged, the error
\* returned is nil either way
StillReadOnly(success) == ""

\* discoverMPathDevice. env holds what the host answers: uuidAfter and
\* mapperAfter (when the two multipath paths appear), mpathInfo (what
\* FindMultipathDevice finds for the real device: a mapper device, <<>> for
\* none) and rwAfter (the first call of WaitForRW that succeeds).
discoverMPathDevice(deviceWwn, connProperties, deviceName, env) ==
    LET f == FindMultipathDevicePath(deviceWwn, env.uuidAfter, env.mapperAfter)
        found == IF f.path = <<>>
                   THEN [devicePath |-> IF env.mpathInfo # <<>>
                                          THEN env.mpathInfo ELSE deviceName,
                         multipathID |-> IF env.mpathInfo # <<>>
                                           THEN deviceWwn ELSE <<>>,
                         calls |-> <<Event("FindMultipathDevice", deviceName)>>]
                   ELSE [devicePath |-> f.path, multipathID |-> deviceWwn,
                         calls |-> <<>>]
        rw == RunWithRetry(WaitForRWAttempts, env.rwAfter)
        rwCalls == IF WaitsForRW(connProperties)
                     THEN [i \in 1..rw.execs |-> Event("WaitForRW", deviceWwn)]
                     ELSE <<>>
    IN  IF f.err # ""
          THEN [devicePath |-> <<>>, multipathID |-> <<>>, err |-> f.err,
                calls |-> <<Event("FindMultipathDevicePath", deviceWwn)>>]
          ELSE [devicePath |-> found.devicePath,
                multipathID |-> found.multipathID,
                err |-> IF WaitsForRW(connProperties)
                          THEN StillReadOnly(rw.ok) ELSE "",
                calls |-> <<Event("FindMultipathDevicePath", deviceWwn)>>
                          \o found.calls \o rwCalls]

-----------------------------------------------------------------------------
(* The host *)

\* how many times the kernel changes /dev/disk/by-path during one operation
MaxKernelUpdates == 2

VolumeWwn == <<"3","6","2","4","a","9","3","7">>

\* The fabric zones HBA1 to the target port W2 and HBA2 to the target port
\* W1; a third target port, W9, exports another volume to HBA1.
Entry1(prefix) == HostDevicePath(prefix, Pci1, <<"0","x">> \o W2L, Lun1)
Entry2(prefix) == HostDevicePath(prefix, Pci2, <<"0","x">> \o W1L, Lun1)
\* the device a by-path entry of this host links to
RealDevice(prefix, path) ==
    IF path = Entry1(prefix) THEN DevSda
    ELSE IF path = Entry2(prefix) THEN DevSdb
    ELSE <<"/","d","e","v","/","s","d","c">>

\* A host: the naming of its by-path entries, the entries that exist, the
\* devices that can be read, its HBAs.
Hosts ==
    UNION {
      { [prefix |-> p, byPath |-> b \cup o, valid |-> v \cup o,
         fc |-> h.fc, hbas |-> h.hbas,
         fcTransport |-> [x \in {<<<<"2">>, W2L>>, <<<<"3">>, W1L>>} |->
                            <<<<"0">>, <<"1">>>>],
         updates |-> 0] :
          p \in {<<>>, PlatformPrefix}, v \in SUBSET b, o \in SUBSET {3},
          h \in { [fc |-> FALSE, hbas |-> <<>>],
                  [fc |-> TRUE, hbas |-> <<>>],
                  [fc |-> TRUE, hbas |-> <<HBA1, HBA2>>] } } :
      b \in SUBSET {1, 2} }

\* the entries numbered 1, 2 (the volume's) and 3 (the other volume's)
EntryOf(prefix, n) ==
    IF n = 1 THEN Entry1(prefix)
    ELSE IF n = 2 THEN Entry2(prefix) ELSE HostDevicePath(prefix, Pci1, <<"0","x">> \o W9L, <<"9">>)

\* os.Stat on a by-path entry
IsFileExists(h, path) ==
    \E n \in h.byPath : EntryOf(h.prefix, n) = path

\* dd if=<device> of=/dev/null count=1
CheckValidDevice(h, path) ==
    \E n \in h.valid : EntryOf(h.prefix, n) = path

\* the paths of the entries that exist
ByPathEntries(h) == {EntryOf(h.prefix, n) : n \in h.byPath}

\* GetFCHBAsInfo
GetFCHBAsInfo(h) ==
    IF ~h.fc THEN [err |-> "fc not supported", hbas |-> <<>>]
    ELSE [err |-> "", hbas |-> h.hbas]

-----------------------------------------------------------------------------
(* Descriptors given to the operations *)

MainDescriptors ==
    { \* two target ports, one shared LUN, multipath, read-write
      [target_wwn |-> StrList(<<W1U, W2L>>), target_lun |-> Str(Lun1),
       access_mode |-> Str(<<"r","w">>)],
      \* the same, no access mode given
      [target_wwn |-> StrList(<<W1U, W2L>>), target_lun |-> Str(Lun1)],
      \* paired lists, read-only, without multipath
      [target_wwns |-> StrList(<<W1U, W2L>>),
       target_luns |-> StrList(<<Lun1, Lun1>>),
       access_mode |-> Str(<<"r","o">>), use_multipath |-> [k |-> "bool", v |-> FALSE]],
      \* two target ports and no LUN
      [target_wwn |-> StrList(<<W1U, W2L>>)],
      \* one target port and two LUNs
      [target_wwns |-> StrList(<<W1U>>),
       target_luns |-> StrList(<<Lun1, Lun2>>)],
      \* a LUN that is no number
      [target_wwn |-> Str(W1U), target_lun |-> Str(<<"x">>)] }

\* use_multipath, true unless the descriptor holds a bool
UseMultipath(connectionProperties) ==
    IF Get(connectionProperties, "use_multipath").k = "bool"
      THEN connectionProperties["use_multipath"].v ELSE TRUE

-----------------------------------------------------------------------------
(* Device information, removal, resize *)

\* the first place where sub occurs in s, 0 for none
IndexOf(s, sub) ==
    LET at == {i \in 1..(Len(s) - Len(sub) + 1) :
                  SubSeq(s, i, i + Len(sub) - 1) = sub}
    IN  IF at = {} THEN 0 ELSE CHOOSE i \in at : \A j \in at : i <= j

\* strings.Replace(s, old, "", 1)
RemoveFirst(s, old) ==
    LET i == IndexOf(s, old)
    IN  IF i = 0 THEN s
        ELSE SubSeq(s, 1, i - 1) \o SubSeq(s, i + Len(old), Len(s))

\* strings.ReplaceAll(s, old, "") for a non-empty old
RECURSIVE RemoveAll(_, _)
RemoveAll(s, old) ==
    LET i == IndexOf(s, old)
    IN  IF i = 0 THEN s
        ELSE SubSeq(s, 1, i - 1)
             \o RemoveAll(SubSeq(s, i + Len(old), Len(s)), old)

MapperMpatha == DevMapperDir \o <<"m","p","a","t","h","a">>

\* the file system of a host: every existing path with its real target
HostLinks(h) ==
    LET real == {DevSda, DevSdb, <<"/","d","e","v","/","s","d","c">>, <<"/","d","e","v","/","d","m","-","0">>}
        all == real \cup ByPathEntries(h) \cup {MapperMpatha}
    IN  [x \in all |->
            IF x \in real THEN x
            ELSE IF x = MapperMpatha THEN <<"/","d","e","v","/","d","m","-","0">>
            ELSE RealDevice(h.prefix, x)]

\* GetNameFromPath
GetNameFromPath(h, path) ==
    LET r == EvalSymlinks(HostLinks(h), path)
    IN  IF r.err # "" THEN <<>>
        ELSE IF HasPrefix(r.path, SlashDev \o <<"/">>) THEN r.path
        ELSE <<>>

\* what sg_scan prints for a device
SgScanLine(device) ==
    device \o <<":"," ","s","c","s","i","2"," ","c","h","a","n","n","e","l","=","0",
                " ","i","d","=","1"," ","l","u","n","=","1">>


\* GetDeviceInfo, the loop over the items of the line; the keys sg_scan
\* prints are host, channel, id and lun
RECURSIVE DeviceInfoItems(_, _)
DeviceInfoItems(items, info) ==
    IF items = <<>> THEN info
    ELSE LET item == Head(items)
             pair == Split(item, "=")
         IN  DeviceInfoItems(Tail(items),
                IF Contains(item, <<"=">>)
                  THEN IF pair[1] = <<"c","h","a","n","n","e","l">> THEN [info EXCEPT !.channel = pair[2]]
                       ELSE IF pair[1] = <<"i","d">> THEN [info EXCEPT !.id = pair[2]]
                       ELSE IF pair[1] = <<"l","u","n">> THEN [info EXCEPT !.lun = pair[2]]
                       ELSE IF pair[1] = <<"h","o","s","t">> THEN [info EXCEPT !.host = pair[2]]
                       ELSE info
                ELSE IF Contains(item, <<"s","c","s","i">>)
                  THEN [info EXCEPT !.host = RemoveAll(item, <<"s","c","s","i">>)]
                ELSE info)

\* GetDeviceInfo for the output out of sg_scan (failed: the command failed)
GetDeviceInfo(device, out, failed) ==
    LET empty == [device |-> device, host |-> <<>>, channel |-> <<>>,
                  id |-> <<>>, lun |-> <<>>]
    IN  IF failed THEN [err |-> "failed execute sg_scan", info |-> EmptyMap]
        ELSE IF out = <<>> THEN [err |-> "", info |-> empty]
        ELSE [err |-> "",
              info |-> DeviceInfoItems(
                          Split(RemoveAll(out, device \o <<":"," ">>), " "),
                          empty)]

\* GetDevPath
GetDevPath(connProperties, deviceInfo) ==
    IF "path" \in DOMAIN deviceInfo THEN deviceInfo["path"]
    ELSE IF Get(connProperties, "device_path").k = "string"
      THEN connProperties["device_path"].v
    ELSE <<>>

\* !strings.Contains(pathUsed, "/pci-")
WasMultipath(pathUsed) == ~Contains(pathUsed, <<"/","p","c","i","-">>)

\* for _, path := range devicePaths { if IsFileExists(path) { append } }
RECURSIVE ExistingPaths(_, _)
ExistingPaths(devicePaths, h) ==
    IF devicePaths = <<>> THEN <<>>
    ELSE (IF IsFileExists(h, Head(devicePaths))
            THEN <<Head(devicePaths)>> ELSE <<>>)
         \o ExistingPaths(Tail(devicePaths), h)

\* GetVolumePaths: the candidate paths that exist
GetVolumePaths(targets, h) ==
    LET g == GetFCHBAsInfo(h)
        p == getPossibleVolumePaths(targets, g.hbas, ByPathEntries(h))
    IN  IF g.err # ""
          THEN [err |-> "failed get fc HBAs info", paths |-> <<>>,
                calls |-> <<Event("GetFCHBAsInfo", <<>>)>>]
        ELSE IF p.err # ""
          THEN [err |-> "failed get possible volume paths", paths |-> <<>>,
                calls |-> <<Event("GetFCHBAsInfo", <<>>),
                            Event("getPossibleVolumePaths", <<>>)>>]
        ELSE [err |-> "",
              paths |-> ExistingPaths(p.paths, h),
              calls |-> <<Event("GetFCHBAsInfo", <<>>),
                          Event("getPossibleVolumePaths", <<>>)>>]

\* /sys/block/<name>/device/delete
DeleteControlFile(device) ==
    <<"/","s","y","s","/","b","l","o","c","k","/">>
    \o RemoveFirst(device, SlashDev \o <<"/">>)
    \o <<"/","d","e","v","i","c","e","/","d","e","l","e","t","e">>

\* ExecWithTimeout, its return: the error is what the command wrote to
\* stderr, whether the command ended by itself or was killed
ExecWithTimeout(run) ==
    [err |-> IF run.stderr THEN "stderr" ELSE "", killed |-> run.timedOut]

\* FlushDeviceIO, the callback given to RunWithRetry: the first of the
\* attempts for which ExecWithTimeout returns no error
FlushOkAt(attempts) ==
    LET ok == {i \in 1..Len(attempts) : ExecWithTimeout(attempts[i]).err = ""}
    IN  IF ok = {} THEN Len(attempts) + 1
        ELSE CHOOSE i \in ok : \A j \in ok : i <= j

\* FlushDeviceIO: the flush commands run; flushOkAt is the first attempt
\* that succeeds. It returns no error whatever the attempts give.
FlushDeviceIO(device, env) ==
    IF env.deviceExists
      THEN [i \in 1..RunWithRetry(FlushAttempts, env.flushOkAt).execs |->
               Event("blockdev --flushbufs", device)]
      ELSE <<>>

\* a mutant of RemoveSCSIDevice: the error of the write is dropped
RemoveSCSIDeviceErrorDropped(device, flush, env) ==
    IF env.deleteExists
      THEN [err |-> "",
            calls |-> (IF flush THEN FlushDeviceIO(device, env) ELSE <<>>)
                      \o <<Event("echo 1", DeleteControlFile(device))>>]
      ELSE [err |-> "", calls |-> <<>>]

\* a mutant of RemoveSCSIDevice: the write comes before the flush
RemoveSCSIDeviceWriteFirst(device, flush, env) ==
    IF env.deleteExists
      THEN [err |-> IF env.echoErr THEN "echo failed" ELSE "",
            calls |-> <<Event("echo 1", DeleteControlFile(device))>>
                      \o (IF flush THEN FlushDeviceIO(device, env) ELSE <<>>)]
      ELSE [err |-> "", calls |-> <<>>]

\* a mutant of RemoveSCSIDevice: the control file is not looked for
RemoveSCSIDeviceUnguarded(device, flush, env) ==
    [err |-> IF env.echoErr THEN "echo failed" ELSE "",
     calls |-> (IF flush THEN FlushDeviceIO(device, env) ELSE <<>>)
               \o <<Event("echo 1", DeleteControlFile(device))>>]

\* RemoveSCSIDevice
RemoveSCSIDevice(device, flush, env) ==
    IF env.deleteExists
      THEN [err |-> IF env.echoErr THEN "echo failed" ELSE "",
            calls |-> (IF flush THEN FlushDeviceIO(device, env) ELSE <<>>)
                      \o <<Event("echo 1", DeleteControlFile(device))>>]
      ELSE [err |-> "", calls |-> <<>>]

\* the answers that are read in a removal
RemoveEnvRead(env, flush) ==
    /\ ~env.deleteExists => ~env.echoErr
    /\ ~(env.deleteExists /\ flush) => env.deviceExists
    /\ ~(env.deleteExists /\ flush /\ env.deviceExists) => env.flushOkAt = 1

\* DoExtendVolume, the body of the loop over the volume paths; env holds
\* which commands fail and the size read after the rescan (a write to the
\* rescan control file that fails is logged and changes nothing)
ExtendPath(volumePath, newSize, env) ==
    LET d == GetDeviceInfo(volumePath, SgScanLine(volumePath), env.sgErr)
        sgScan == Event("sg_scan", volumePath)
        getSize == Event("blockdev --getsize64", volumePath)
        \* /sys/bus/scsi/drivers/sd/<host>:<channel>:<id>:<lun>/rescan
        rescanFile(device) ==
            <<"/","s","y","s","/","b","u","s","/","s","c","s","i","/","d","r","i","v","e","r","s","/","s","d","/">>
            \o device.host \o <<":">> \o device.channel \o <<":">> \o device.id
            \o <<":">> \o device.lun \o <<"/","r","e","s","c","a","n">>
    IN  IF d.err # "" THEN [newSize |-> newSize, calls |-> <<sgScan>>]
        ELSE IF env.sizeErr
          THEN [newSize |-> newSize, calls |-> <<sgScan, getSize>>]
        ELSE [newSize |-> IF env.newSizeErr THEN 0 ELSE env.size,
              calls |-> <<sgScan, getSize,
                          Event("echo 1", rescanFile(d.info)),
                          getSize>>]

\* a mutant of ExtendMultipath: the output of resize map is not looked at
ExtendMultipathIgnoresFail(volumePaths, useMultipath, newSize, env) ==
    LET f == FindMultipathDevicePath(VolumeWwn, env.uuidAfter, env.mapperAfter)
        wwn == Event("GetSCSIWWN", volumePaths[1])
        find == Event("FindMultipathDevicePath", VolumeWwn)
        reconf == Event("multipathd reconfigure", <<>>)
        getSize == Event("blockdev --getsize64", f.path)
        resize == Event("multipathd resize map", VolumeWwn)
    IN  IF env.fails = "scsi_id"
          THEN [err |-> "failed get scsi wwn", size |-> 0, calls |-> <<wwn>>]
        ELSE IF ~useMultipath
          THEN [err |-> "", size |-> newSize, calls |-> <<wwn>>]
        ELSE IF f.err # ""
          THEN [err |-> "failed find multipath device path", size |-> 0,
                calls |-> <<wwn, find>>]
        ELSE IF f.path = <<>>
          THEN [err |-> "", size |-> newSize, calls |-> <<wwn, find>>]
        ELSE IF env.fails = "reconfigure"
          THEN [err |-> "failed reconfigure multipath", size |-> 0,
                calls |-> <<wwn, find, reconf>>]
        ELSE IF env.fails = "size"
          THEN [err |-> "failed get device size", size |-> 0,
                calls |-> <<wwn, find, reconf, getSize>>]
        ELSE IF env.fails = "resize"
          THEN [err |-> "failed multipath resize map", size |-> 0,
                calls |-> <<wwn, find, reconf, getSize, resize>>]
        ELSE IF env.fails = "new size"
          THEN [err |-> "failed get device size", size |-> 0,
                calls |-> <<wwn, find, reconf, getSize, resize, getSize>>]
        ELSE [err |-> "", size |-> env.size,
              calls |-> <<wwn, find, reconf, getSize, resize, getSize>>]

\* DoExtendVolume after its loop: the WWN of the first path, and with
\* multipath the reconfigure, the resize of the map and the new size
ExtendMultipath(volumePaths, useMultipath, newSize, env) ==
    LET f == FindMultipathDevicePath(VolumeWwn, env.uuidAfter, env.mapperAfter)
        wwn == Event("GetSCSIWWN", volumePaths[1])
        find == Event("FindMultipathDevicePath", VolumeWwn)
        reconf == Event("multipathd reconfigure", <<>>)
        getSize == Event("blockdev --getsize64", f.path)
        resize == Event("multipathd resize map", VolumeWwn)
    IN  IF env.fails = "scsi_id"
          THEN [err |-> "failed get scsi wwn", size |-> 0, calls |-> <<wwn>>]
        ELSE IF ~useMultipath
          THEN [err |-> "", size |-> newSize, calls |-> <<wwn>>]
        ELSE IF f.err # ""
          THEN [err |-> "failed find multipath device path", size |-> 0,
                calls |-> <<wwn, find>>]
        ELSE IF f.path = <<>>
          THEN [err |-> "", size |-> newSize, calls |-> <<wwn, find>>]
        ELSE IF env.fails = "reconfigure"
          THEN [err |-> "failed reconfigure multipath", size |-> 0,
                calls |-> <<wwn, find, reconf>>]
        ELSE IF env.fails = "size"
          THEN [err |-> "failed get device size", size |-> 0,
                calls |-> <<wwn, find, reconf, getSize>>]
        ELSE IF env.fails = "resize"
          THEN [err |-> "failed multipath resize map", size |-> 0,
                calls |-> <<wwn, find, reconf, getSize, resize>>]
        ELSE IF env.fails = "resize says fail"
          THEN [err |-> "multipathd failed to update the size mapping",
                size |-> 0,
                calls |-> <<wwn, find, reconf, getSize, resize>>]
        ELSE IF env.fails = "new size"
          THEN [err |-> "failed get device size", size |-> 0,
                calls |-> <<wwn, find, reconf, getSize, resize, getSize>>]
        ELSE [err |-> "", size |-> env.size,
              calls |-> <<wwn, find, reconf, getSize, resize, getSize>>]

ExtendEnvs(useMultipath) ==
    { e \in [fails : {"none", "scsi_id", "reconfigure", "size", "resize",
                      "resize says fail", "new size"},
              uuidAfter : 1..(WaitForPathAttempts + 2),
             mapperAfter : 1..(WaitForPathAttempts + 2), size : {1, 2}] :
        /\ (e.fails = "scsi_id" \/ ~useMultipath) =>
              e.uuidAfter = 1 /\ e.mapperAfter = 1
        /\ ~useMultipath => e.fails \in {"none", "scsi_id"}
        /\ e.uuidAfter <= WaitForPathAttempts + 1 => e.mapperAfter = 1
        /\ (e.uuidAfter > WaitForPathAttempts + 1
            /\ e.mapperAfter > WaitForPathAttempts + 1) =>
              e.fails \in {"none", "scsi_id"}
        /\ e.fails # "none" => e.size = 1
        /\ ~useMultipath => e.size = 1 }

-----------------------------------------------------------------------------
(* The operations *)

MainIdle ==
    /\ pc = "idle"
    /\ props = EmptyMap
    /\ devInfo = EmptyMap
    /\ host = EmptyMap
    /\ cv = EmptyMap
    /\ result = EmptyMap
    /\ calls = <<>>

MainUnchanged == UNCHANGED <<pc, props, devInfo, host, cv, result, calls>>

\* the normalizer applied to an arbitrary descriptor
InitNormalize ==
    /\ MainIdle
    /\ \E d \in NormalizerInputs :
          pure = [fn |-> "addTargetsToConnectionProperties", in |-> d,
                  out |-> EmptyMap]

Normalize ==
    /\ pure.fn = "addTargetsToConnectionProperties"
    /\ pure.out = EmptyMap
    /\ \E ord \in ItMapOrders(pure.in) :
          pure' = [pure EXCEPT
                     !.out = addTargetsToConnectionProperties(pure.in, ord)]
    /\ MainUnchanged

\* the normalizer applied to the descriptor it has returned, which is the
\* argument it has mutated in place: what DisconnectVolume and ExtendVolume
\* do with the descriptor ConnectVolume was given
NormalizeAgain ==
    /\ pure.fn = "addTargetsToConnectionProperties"
    /\ pure.out # EmptyMap
    /\ "again" \notin DOMAIN pure.out
    /\ pure.out.err = ""
    /\ \E ord \in ItMapOrders(pure.out.ret) :
       \E again \in {addTargetsToConnectionProperties(pure.out.ret, ord)} :
          pure' = [pure EXCEPT
                     !.out = [err |-> pure.out.err, ret |-> pure.out.ret,
                              arg |-> pure.out.arg, again |-> again]]
    /\ MainUnchanged

SpecNormalize == InitNormalize /\ [][Normalize \/ NormalizeAgain]_vars

-----------------------------------------------------------------------------
(* ConnectVolume *)

NoLocals ==
    [op |-> "none", hbas |-> <<>>, hostDevices |-> <<>>, retry |-> RetryStart,
     hostDevice |-> <<>>, deviceName |-> <<>>, polls |-> <<>>,
     atCompute |-> {}, useMultipath |-> TRUE, volumePaths |-> <<>>,
     devices |-> <<>>, next |-> 1, newSize |-> 0, env |-> EmptyMap,
     pathUsed |-> <<>>, wasMultipath |-> FALSE, answers |-> <<>>,
     mPathPath |-> <<>>]

Returned(err, info) == [err |-> err, panic |-> FALSE, info |-> info]

\* connProperties["targets"].([]initiator.Target) of a normalized descriptor
TargetsOf(connProperties) == Get(connProperties, "targets").v

Init ==
    /\ pc = "idle"
    /\ props = EmptyMap
    /\ devInfo = EmptyMap
    /\ host \in Hosts
    /\ cv = NoLocals
    /\ result = EmptyMap
    /\ calls = <<>>
    /\ pure = [fn |-> "none", in |-> EmptyMap, out |-> EmptyMap]

\* the candidates that exist and pass the validity probe, by position
ValidDevices(hostDevices, h) ==
    {i \in 1..Len(hostDevices) :
        IsFileExists(h, hostDevices[i]) /\ CheckValidDevice(h, hostDevices[i])}

\* a mutant of FirstValidDevice: the last candidate that is valid
LastValidDevice(hostDevices, h) ==
    IF ValidDevices(hostDevices, h) = {} THEN <<>>
    ELSE hostDevices[CHOOSE i \in ValidDevices(hostDevices, h) :
                        \A j \in ValidDevices(hostDevices, h) : j <= i]

\* for _, dev := range hostDevices { if IsFileExists(dev) &&
\* CheckValidDevice(dev) { return true } }: the first hit, <<>> for none
FirstValidDevice(hostDevices, h) ==
    IF ValidDevices(hostDevices, h) = {} THEN <<>>
    ELSE hostDevices[CHOOSE i \in ValidDevices(hostDevices, h) :
                        \A j \in ValidDevices(hostDevices, h) : i <= j]

\* ConnectVolume up to the polling loop: normalize, discover the HBAs,
\* compute the candidate paths
ConnectVolume_Start ==
    /\ pc = "idle"
    /\ \E d \in MainDescriptors : \E ord \in ItMapOrders(d) :
       \E n \in {addTargetsToConnectionProperties(d, ord)} :
       \E g \in {GetFCHBAsInfo(host)} :
       \E hd \in {getPossibleVolumePaths(TargetsOf(n.ret), g.hbas,
                                         ByPathEntries(host))} :
       \E locals \in {[NoLocals EXCEPT !.op = "ConnectVolume"]} :
            /\ props' = n.arg
            /\ IF n.err # ""
                 THEN /\ result' = Returned(n.err, EmptyMap)
                      /\ calls' = calls
                      /\ cv' = locals
                      /\ pc' = "done"
               ELSE IF g.err # "" \/ Len(g.hbas) = 0
                 THEN /\ result' = Returned(
                            IF g.err # "" THEN g.err
                            ELSE "we are unable to locate any Fibre Channel devices",
                            EmptyMap)
                      /\ calls' = Append(calls, Event("GetFCHBAsInfo", <<>>))
                      /\ cv' = locals
                      /\ pc' = "done"
               ELSE IF hd.err # ""
                 THEN /\ result' = Returned(hd.err, EmptyMap)
                      /\ calls' = calls \o <<Event("GetFCHBAsInfo", <<>>),
                                   Event("getPossibleVolumePaths", <<>>)>>
                      /\ cv' = [locals EXCEPT !.hbas = g.hbas]
                      /\ pc' = "done"
               ELSE /\ result' = result
                    /\ calls' = calls \o <<Event("GetFCHBAsInfo", <<>>),
                                 Event("getPossibleVolumePaths", <<>>)>>
                    /\ cv' = [locals EXCEPT !.hbas = g.hbas,
                                !.hostDevices = hd.paths,
                                !.atCompute = ByPathEntries(host)]
                    /\ pc' = "cv_poll"
    /\ UNCHANGED <<devInfo, host, pure>>

\* one call of the polling function by RunWithRetry: the first candidate
\* that exists and is valid is captured, otherwise the hosts are rescanned
ConnectVolume_Poll ==
    /\ pc = "cv_poll"
    /\ RetryCallsExec(cv.retry, DeviceScanAttemptsDefault)
    /\ \E found \in {FirstValidDevice(cv.hostDevices, host)} :
       \E poll \in {[byPath |-> ByPathEntries(host),
                     valid |-> {EntryOf(host.prefix, n) : n \in host.valid},
                     found |-> found]} :
           IF found # <<>>
             THEN /\ cv' = [cv EXCEPT !.hostDevice = found,
                              !.deviceName = RealDevice(host.prefix, found),
                              !.retry = RetryAfterExec(cv.retry, TRUE),
                              !.polls = Append(cv.polls, poll)]
                  /\ calls' = Append(calls, Event("poll", found))
                  /\ pc' = "cv_resolve"
             ELSE /\ cv' = [cv EXCEPT
                              !.retry = RetryAfterExec(cv.retry, FALSE),
                              !.polls = Append(cv.polls, poll)]
                  /\ calls' = Append(calls, Event("poll", <<>>))
                              \o RescanHosts(cv.hbas, props, host.fcTransport)
                  /\ pc' = "cv_poll"
    /\ UNCHANGED <<props, devInfo, host, result, pure>>

\* the ticker fires after the last attempt: RunWithRetry returns false
ConnectVolume_NotFound ==
    /\ pc = "cv_poll"
    /\ RetryExhausted(cv.retry, DeviceScanAttemptsDefault)
    /\ result' = Returned("fibre Channel volume device not found", EmptyMap)
    /\ pc' = "done"
    /\ UNCHANGED <<props, devInfo, host, cv, calls, pure>>

\* the kernel creates a by-path entry for a device it has found, readable
\* or not, or a device that could not be read becomes readable
KernelUpdate ==
    /\ pc = "cv_poll"
    /\ host.updates < MaxKernelUpdates
    /\ \E n \in {1, 2, 3} :
        \/ /\ n \notin host.byPath
           /\ \E readable \in BOOLEAN :
                /\ readable \/ n # 3
                /\ host' = [host EXCEPT !.byPath = @ \cup {n},
                              !.valid = IF readable THEN @ \cup {n} ELSE @ \ {n},
                              !.updates = @ + 1]
        \/ /\ n \in host.byPath \ host.valid
           /\ host' = [host EXCEPT !.valid = @ \cup {n}, !.updates = @ + 1]
    /\ UNCHANGED <<pc, props, devInfo, cv, result, calls, pure>>

\* the answers that are read while the device is resolved
ResolveEnvRead(env, useMultipath, waitsForRW) ==
    /\ (env.wwnErr \/ ~useMultipath) =>
          /\ env.uuidAfter = 1
          /\ env.mapperAfter = 1
          /\ env.rwAfter = 1
    /\ env.uuidAfter <= WaitForPathAttempts + 1 => env.mapperAfter = 1
    /\ (env.uuidAfter > WaitForPathAttempts + 1
        /\ env.mapperAfter > WaitForPathAttempts + 1) => env.rwAfter = 1
    /\ ~waitsForRW => env.rwAfter = 1

\* the DeviceInfo ConnectVolume returns; multipath_id is only set when a
\* multipath device was found
ConnectedDeviceInfo(useMultipath, d, hostDevice) ==
    IF useMultipath /\ d.multipathID # <<>>
      THEN [type |-> <<"b","l","o","c","k">>, scsi_wwn |-> VolumeWwn,
            multipath_id |-> d.multipathID, path |-> d.devicePath]
      ELSE [type |-> <<"b","l","o","c","k">>, scsi_wwn |-> VolumeWwn,
            path |-> IF useMultipath THEN d.devicePath ELSE hostDevice]

\* ConnectVolume after the polling loop: the WWN of the device, multipath
\* discovery, the DeviceInfo. env holds what the host answers: whether
\* scsi_id fails, and what discoverMPathDevice is told.
ConnectVolume_Resolve ==
    /\ pc = "cv_resolve"
    /\ \E env \in [wwnErr : BOOLEAN,
                    uuidAfter : 1..(WaitForPathAttempts + 2),
                    mapperAfter : 1..(WaitForPathAttempts + 2),
                    mpathInfo : {<<>>, MapperMpatha},
                    rwAfter : 1..(WaitForRWAttempts + 1)] :
       \E useMultipath \in {UseMultipath(props)} :
       \E d \in {discoverMPathDevice(VolumeWwn, props, cv.deviceName, env)} :
       \E wwn \in {Event("GetSCSIWWN", cv.hostDevice)} :
            /\ ResolveEnvRead(env, useMultipath, WaitsForRW(props))
            /\ (\A i \in 1..Len(d.calls) :
                    d.calls[i].op # "FindMultipathDevice") =>
                        env.mpathInfo = <<>>
            /\ cv' = [cv EXCEPT !.useMultipath = useMultipath, !.env = env]
            /\ IF env.wwnErr
                 THEN /\ result' = Returned("scsi_id failed", EmptyMap)
                      /\ calls' = Append(calls, wwn)
               ELSE IF useMultipath /\ d.err # ""
                 THEN /\ result' = Returned(d.err, EmptyMap)
                      /\ calls' = Append(calls, wwn) \o d.calls
               ELSE /\ result' = Returned("",
                          ConnectedDeviceInfo(useMultipath, d, cv.hostDevice))
                    /\ calls' = Append(calls, wwn)
                                \o (IF useMultipath THEN d.calls ELSE <<>>)
    /\ pc' = "done"
    /\ UNCHANGED <<props, devInfo, host, pure>>

-----------------------------------------------------------------------------
(* DisconnectVolume *)

\* a mutant of InitialMPathPath: the mapper path is known before the loop
InitialMPathPathKnown == MapperMpatha

\* mPathPath := "" before the loop over the volume paths
InitialMPathPath == <<>>

\* a mutant of NoDeviceToRemove: the check is left out
NoDeviceToRemoveUnchecked(devices) == FALSE

\* len(devices) == 0
NoDeviceToRemove(devices) == Len(devices) = 0

\* DisconnectVolume up to the loop over the volume paths. A descriptor that
\* fails validation is logged; the nil map's "targets" is then asserted to
\* be a []Target, which panics.
DisconnectVolume_Start ==
    /\ pc = "idle"
    /\ \E d \in MainDescriptors : \E ord \in ItMapOrders(d) :
       \E deviceInfo \in {EmptyMap, [path |-> Entry1(host.prefix)],
                           [path |-> Entry2(host.prefix)],
                           [path |-> MapperMpatha]} :
       \E n \in {addTargetsToConnectionProperties(d, ord)} :
       \E gv \in {GetVolumePaths(TargetsOf(n.ret), host)} :
       \E locals \in {[NoLocals EXCEPT !.op = "DisconnectVolume",
                         !.useMultipath = UseMultipath(d)]} :
            /\ props' = n.arg
            /\ devInfo' = deviceInfo
            /\ IF n.err # ""
                 THEN /\ result' = [err |-> "", panic |-> TRUE, info |-> EmptyMap]
                      /\ calls' = calls
                      /\ cv' = locals
                      /\ pc' = "done"
               ELSE IF gv.err # ""
                 THEN /\ result' = Returned("failed get volume paths", EmptyMap)
                      /\ calls' = calls \o gv.calls
                      /\ cv' = locals
                      /\ pc' = "done"
               ELSE /\ result' = result
                    /\ calls' = calls \o gv.calls
                    /\ cv' = [locals EXCEPT !.volumePaths = gv.paths,
                                !.mPathPath = InitialMPathPath]
                    /\ pc' = "dv_collect"
    /\ UNCHANGED <<host, pure>>

\* the multipath branch of the loop over the volume paths, for a path that
\* passes the guard; mPathPath is assigned what FindMultipathDevicePath
\* returns
FlushMultipathOf(path, mPathPath, wwnErr, f) ==
    IF wwnErr
      THEN [skip |-> TRUE, mPathPath |-> mPathPath,
            calls |-> <<Event("GetSCSIWWN", path)>>]
    ELSE IF f.err # ""
      THEN [skip |-> TRUE, mPathPath |-> f.path,
            calls |-> <<Event("GetSCSIWWN", path),
                        Event("FindMultipathDevicePath", VolumeWwn)>>]
    ELSE [skip |-> FALSE, mPathPath |-> f.path,
          calls |-> <<Event("GetSCSIWWN", path),
                      Event("FindMultipathDevicePath", VolumeWwn)>>
                    \o (IF f.path # <<>>
                          THEN <<Event("multipath -f", f.path)>> ELSE <<>>)]

\* one round of the loop over the volume paths
DisconnectVolume_DeviceInfo ==
    /\ pc = "dv_collect"
    /\ cv.next <= Len(cv.volumePaths)
    /\ \E sgErr \in BOOLEAN, wwnErr \in BOOLEAN,
          uuidAfter \in {1, WaitForPathAttempts + 2} :
       \E path \in {cv.volumePaths[cv.next]} :
       \E realPath \in {GetNameFromPath(host, path)} :
       \E mPathPath \in {cv.mPathPath} :
       \E guard \in {cv.useMultipath /\ mPathPath # <<>>
                     /\ CheckValidDevice(host, path)} :
       \E multipath \in {
            IF guard
              THEN FlushMultipathOf(path, mPathPath, wwnErr,
                     FindMultipathDevicePath(VolumeWwn, uuidAfter, uuidAfter))
              ELSE [skip |-> FALSE, mPathPath |-> mPathPath,
                    calls |-> <<>>]} :
       \E d \in {GetDeviceInfo(realPath, SgScanLine(realPath), sgErr)} :
            /\ ~guard => (~wwnErr /\ uuidAfter = 1)
            /\ multipath.skip => ~sgErr
            /\ IF multipath.skip
                 THEN /\ calls' = calls \o multipath.calls
                      /\ cv' = [cv EXCEPT !.next = @ + 1,
                                  !.mPathPath = multipath.mPathPath]
               ELSE /\ calls' = (calls \o multipath.calls)
                                \o <<Event("sg_scan", realPath)>>
                    /\ cv' = [cv EXCEPT !.next = @ + 1,
                                !.mPathPath = multipath.mPathPath,
                                !.devices = IF d.err # "" THEN @
                                            ELSE Append(@, d.info)]
    /\ UNCHANGED <<pc, props, devInfo, host, result, pure>>

\* after the loop: nothing was collected
DisconnectVolume_NoDevice ==
    /\ pc = "dv_collect"
    /\ cv.next > Len(cv.volumePaths)
    /\ NoDeviceToRemove(cv.devices)
    /\ result' = Returned("no device to remove", EmptyMap)
    /\ pc' = "done"
    /\ UNCHANGED <<props, devInfo, host, cv, calls, pure>>

\* after the loop: removeDevices is called; it computes pathUsed and
\* wasMultipath before its own loop
DisconnectVolume_RemoveDevices ==
    /\ pc = "dv_collect"
    /\ cv.next > Len(cv.volumePaths)
    /\ ~NoDeviceToRemove(cv.devices)
    /\ \E pathUsed \in {GetDevPath(props, devInfo)} :
          cv' = [cv EXCEPT !.next = 1, !.pathUsed = pathUsed,
                           !.wasMultipath = WasMultipath(pathUsed)]
    /\ pc' = "dv_remove"
    /\ UNCHANGED <<props, devInfo, host, result, calls, pure>>

\* removeDevices, one round of its loop
DisconnectVolume_RemoveDevice ==
    /\ pc = "dv_remove"
    /\ cv.next <= Len(cv.devices)
    /\ \E env \in [deleteExists : BOOLEAN, deviceExists : BOOLEAN,
                    flushOkAt : 1..(FlushAttempts + 1), echoErr : BOOLEAN] :
       \E devicePath \in {cv.devices[cv.next].device} :
       \E rf \in {RequiresFlush(HostLinks(host), devicePath, cv.pathUsed,
                                cv.wasMultipath)} :
       \E rm \in {RemoveSCSIDevice(devicePath, rf.flush, env)} :
       \E asked \in {Append(calls, Event("RequiresFlush", devicePath))} :
            /\ RemoveEnvRead(env, rf.flush /\ rf.err = "")
            /\ rf.err # "" => ~env.deleteExists
            /\ IF rf.err # ""
                 THEN /\ result' = Returned("failed remove devices", EmptyMap)
                      /\ calls' = asked
                      /\ cv' = [cv EXCEPT !.env = env]
                      /\ pc' = "done"
               ELSE IF rm.err # ""
                 THEN /\ result' = Returned("failed remove devices", EmptyMap)
                      /\ calls' = asked \o rm.calls
                      /\ cv' = [cv EXCEPT !.env = env]
                      /\ pc' = "done"
               ELSE /\ result' = result
                    /\ calls' = asked \o rm.calls
                    /\ cv' = [cv EXCEPT !.next = @ + 1, !.env = env]
                    /\ pc' = "dv_remove"
    /\ UNCHANGED <<props, devInfo, host, pure>>

\* every device is removed
DisconnectVolume_Done ==
    /\ pc = "dv_remove"
    /\ cv.next > Len(cv.devices)
    /\ result' = Returned("", EmptyMap)
    /\ pc' = "done"
    /\ UNCHANGED <<props, devInfo, host, cv, calls, pure>>

-----------------------------------------------------------------------------
(* ExtendVolume *)

\* ExtendVolume up to the call of DoExtendVolume
ExtendVolume_Start ==
    /\ pc = "idle"
    /\ \E d \in MainDescriptors : \E ord \in ItMapOrders(d) :
       \E n \in {addTargetsToConnectionProperties(d, ord)} :
       \E gv \in {GetVolumePaths(TargetsOf(n.ret), host)} :
       \E locals \in {[NoLocals EXCEPT !.op = "ExtendVolume",
                         !.useMultipath = UseMultipath(d)]} :
            /\ props' = n.arg
            /\ IF n.err # ""
                 THEN /\ result' = Returned(n.err, EmptyMap)
                      /\ calls' = calls
                      /\ cv' = locals
                      /\ pc' = "done"
               ELSE IF gv.err # ""
                 THEN /\ result' = Returned("failed get volume paths", EmptyMap)
                      /\ calls' = calls \o gv.calls
                      /\ cv' = locals
                      /\ pc' = "done"
               ELSE IF Len(gv.paths) = 0
                 THEN /\ result' = Returned(
                            "couldn't find any volume paths on the host to extend volume",
                            EmptyMap)
                      /\ calls' = calls \o gv.calls
                      /\ cv' = locals
                      /\ pc' = "done"
               ELSE /\ result' = result
                    /\ calls' = calls \o gv.calls
                    /\ cv' = [locals EXCEPT !.volumePaths = gv.paths]
                    /\ pc' = "ev_paths"
    /\ UNCHANGED <<devInfo, host, pure>>

\* a mutant of ExtendVolume_Path: a failing query on a path ends the call
ExtendVolume_PathAborts ==
    /\ pc = "ev_paths"
    /\ cv.next <= Len(cv.volumePaths)
    /\ \E env \in { e \in [sgErr : BOOLEAN, sizeErr : BOOLEAN,
                           newSizeErr : BOOLEAN, size : {1, 2}] :
                      /\ e.sgErr => ~e.sizeErr
                      /\ (e.sgErr \/ e.sizeErr) => ~e.newSizeErr
                      /\ (e.sgErr \/ e.sizeErr \/ e.newSizeErr) => e.size = 1 } :
       \E r \in {ExtendPath(cv.volumePaths[cv.next], cv.newSize, env)} :
            /\ calls' = calls \o r.calls
            /\ cv' = [cv EXCEPT !.next = @ + 1, !.newSize = r.newSize,
                        !.answers = Append(@, env)]
            /\ IF env.sgErr \/ env.sizeErr \/ env.newSizeErr
                 THEN /\ pc' = "done"
                      /\ result' = Returned("failed extend volume", EmptyMap)
                 ELSE UNCHANGED <<pc, result>>
    /\ UNCHANGED <<props, devInfo, host, pure>>

\* DoExtendVolume, one round of the loop over the volume paths
ExtendVolume_Path ==
    /\ pc = "ev_paths"
    /\ cv.next <= Len(cv.volumePaths)
    /\ \E env \in { e \in [sgErr : BOOLEAN, sizeErr : BOOLEAN,
                           newSizeErr : BOOLEAN, size : {1, 2}] :
                      /\ e.sgErr => ~e.sizeErr
                      /\ (e.sgErr \/ e.sizeErr) => ~e.newSizeErr
                      /\ (e.sgErr \/ e.sizeErr \/ e.newSizeErr) => e.size = 1 } :
       \E r \in {ExtendPath(cv.volumePaths[cv.next], cv.newSize, env)} :
            /\ calls' = calls \o r.calls
            /\ cv' = [cv EXCEPT !.next = @ + 1, !.newSize = r.newSize,
                        !.answers = Append(@, env)]
    /\ UNCHANGED <<pc, props, devInfo, host, result, pure>>

\* DoExtendVolume after the loop, and the return of ExtendVolume
ExtendVolume_Multipath ==
    /\ pc = "ev_paths"
    /\ cv.next > Len(cv.volumePaths)
    /\ \E env \in ExtendEnvs(cv.useMultipath) :
       \E r \in {ExtendMultipath(cv.volumePaths, cv.useMultipath, cv.newSize,
                                 env)} :
            /\ calls' = calls \o r.calls
            /\ cv' = [cv EXCEPT !.newSize = r.size, !.env = env]
            /\ result' = Returned(r.err, EmptyMap)
    /\ pc' = "done"
    /\ UNCHANGED <<props, devInfo, host, pure>>

Next ==
    \/ ConnectVolume_Start
    \/ ConnectVolume_Poll
    \/ ConnectVolume_NotFound
    \/ KernelUpdate
    \/ ConnectVolume_Resolve
    \/ DisconnectVolume_Start
    \/ DisconnectVolume_DeviceInfo
    \/ DisconnectVolume_NoDevice
    \/ DisconnectVolume_RemoveDevices
    \/ DisconnectVolume_RemoveDevice
    \/ DisconnectVolume_Done
    \/ ExtendVolume_Start
    \/ ExtendVolume_Path
    \/ ExtendVolume_Multipath

Spec == Init /\ [][Next]_vars

-----------------------------------------------------------------------------
(* Inputs of RequiresFlush *)

ByPath1 == HostDevicePath(<<>>, Pci1, <<"0","x">> \o W1L, Lun1)
ByPath2 == HostDevicePath(PlatformPrefix, Pci2, <<"0","x">> \o W2L, Lun1)

LinkTargets == {DevSda, DevSdb, <<"/","d","e","v","/","m","a","p","p","e","r","/","c","r","y","p","t">>}

InitFlush ==
    /\ MainIdle
    /\ \E links \in
            { [x \in LinkTargets \cup {l \in {ByPath1, ByPath2} : t[l] # <<>>} |->
                  IF x \in LinkTargets THEN x ELSE t[x]] :
                t \in [{ByPath1, ByPath2} -> LinkTargets \cup {<<>>}] },
          devicePath \in (LinkTargets \cup {ByPath1, ByPath2}),
          pathUsed \in (LinkTargets \cup {ByPath1, ByPath2}) \cup {<<>>}, wasMultipath \in BOOLEAN :
          pure = [fn |-> "RequiresFlush",
                  in |-> [links |-> links, devicePath |-> devicePath,
                          pathUsed |-> pathUsed, wasMultipath |-> wasMultipath],
                  out |-> EmptyMap]

ApplyRequiresFlush ==
    /\ pure.fn = "RequiresFlush"
    /\ pure.out = EmptyMap
    /\ pure' = [pure EXCEPT !.out = RequiresFlush(pure.in.links,
                   pure.in.devicePath, pure.in.pathUsed, pure.in.wasMultipath)]
    /\ MainUnchanged

SpecFlush == InitFlush /\ [][ApplyRequiresFlush]_vars

-----------------------------------------------------------------------------
(* The helpers of the connector, each applied to arbitrary arguments *)

\* most rounds of RunWithRetry a caller asks for
MaxAttempts == 3

\* what lsblk -o NAME,RO -l -n prints for the rows: a line per row, the
\* name and the read-only flag separated by blanks; nl: the output ends
\* with a newline
RECURSIVE LsblkOutput(_, _)
LsblkOutput(rows, nl) ==
    IF rows = <<>> THEN <<>>
    ELSE Head(rows).name \o <<" ", " ">> \o Head(rows).ro
         \o (IF Len(rows) > 1 \/ nl THEN <<"\n">> ELSE <<>>)
         \o LsblkOutput(Tail(rows), nl)

\* what systool -c fc_host -v prints: the class line and an empty line,
\* then a line key = "value" for each pair of each record, two empty lines
\* between records; inner: an empty line between the pairs of a record;
\* tail: the number of newlines after the last pair
SystoolOutput(records, inner, tail) ==
    LET RECURSIVE Pairs(_)
        Pairs(r) ==
            IF r = <<>> THEN <<>>
            ELSE <<" ", " ", " ", " ">> \o Head(r).key \o <<" ", "=", " ", "\"">>
                 \o Head(r).value \o <<"\"">>
                 \o (IF Len(r) > 1
                       THEN (IF inner THEN <<"\n", "\n">> ELSE <<"\n">>)
                       ELSE <<>>)
                 \o Pairs(Tail(r))
        RECURSIVE Records(_)
        Records(rs) ==
            IF rs = <<>> THEN <<>>
            ELSE Pairs(Head(rs))
                 \o (IF Len(rs) > 1 THEN <<"\n", "\n", "\n">>
                      ELSE [i \in 1..tail |-> "\n"])
                 \o Records(Tail(rs))
    IN  <<"C","l","a","s","s"," ","="," ","\"","f","c","_","h","o","s","t","\"","\n","\n">>
        \o Records(records)

InitUtil ==
    /\ MainIdle
    /\ \/ \E flush \in BOOLEAN,
             env \in [deleteExists : BOOLEAN, echoErr : BOOLEAN,
                      deviceExists : BOOLEAN, flushOkAt : 1..(FlushAttempts + 1)] :
             pure = [fn |-> "RemoveSCSIDevice",
                     in |-> [device |-> DevSda, flush |-> flush, env |-> env],
                     out |-> EmptyMap]
       \/ \E hbas \in {<<HBA1, HBA2>>, <<HBA2, HBA1>>, <<HBA1>>, <<HBA2>>},
             zoned \in SUBSET {<<<<"2">>, W2L>>, <<<<"3">>, W1L>>},
             ews \in {Nil, [k |-> "bool", v |-> TRUE], [k |-> "bool", v |-> FALSE]},
             luns \in {<<Lun1, Lun1>>, <<Lun1, Lun2>>} :
             pure = [fn |-> "RescanHosts",
                     in |-> [hbas |-> hbas,
                             fcTransport |-> [x \in zoned |-> <<<<"0">>, <<"1">>>>],
                             connProperties |->
                                 LET targets == [targets |->
                                         [k |-> "[]Target",
                                          v |-> MakeTargets(luns, <<W2L, W1L>>)]]
                                 IN  IF ews = Nil THEN targets
                                     ELSE Put(targets, "enable_wildcard_scan", ews)],
                     out |-> EmptyMap]
       \/ \E hbas \in {<<HBA1, HBA2>>, <<HBA2, HBA1>>, <<HBA1>>, <<HBA2>>},
             zoned \in SUBSET {<<<<"2">>, W2L>>, <<<<"2">>, W1L>>, <<<<"3">>, W1L>>},
             im \in {[x \in {INI1L} |-> <<W2L>>],
                     [x \in {INI1L, INI2L} |-> <<W2L, W1L>>]} :
          \E d \in {Descriptor([target_wwns |-> StrList(<<W2L, W1L>>),
                                target_luns |-> StrList(<<Lun1, Lun2>>),
                                initiator_target_map |-> StrListMap(im)])} :
          \E ord \in ItMapOrders(d) :
             pure = [fn |-> "RescanHosts",
                     in |-> [hbas |-> hbas,
                             fcTransport |-> [x \in zoned |-> <<<<"0">>, <<"1">>>>],
                             connProperties |->
                                 addTargetsToConnectionProperties(d, ord).ret],
                     out |-> EmptyMap]
       \/ \E rows \in SeqsUpTo([name : {<<"s","d","a">>, VolumeWwn \o <<" ","(","d","m","-","1",")">>},
                                 ro : {<<"0">>, <<"1">>}], 2),
             nl \in BOOLEAN, lsblkErr \in BOOLEAN, mpErr \in BOOLEAN :
             pure = [fn |-> "WaitForRW",
                     in |-> [deviceWwn |-> VolumeWwn, rows |-> rows, nl |-> nl,
                             lsblkErr |-> lsblkErr, mpErr |-> mpErr],
                     out |-> EmptyMap]
       \/ \E deviceExists \in BOOLEAN,
             attempts \in [1..FlushAttempts -> [timedOut : BOOLEAN, stderr : BOOLEAN]] :
             pure = [fn |-> "FlushDeviceIO",
                     in |-> [device |-> DevSda, deviceExists |-> deviceExists,
                             attempts |-> attempts],
                     out |-> EmptyMap]
       \/ \E n \in {0, 1, 255, 256, 257, 4660, 65535, 65536, 131075, 305419896} :
             \E lunIDs \in {IntVal(n), Str(Itoa(n)), Str(<<"x">> \o Itoa(n)),
                             Str(<<>>), StrList(<<Itoa(n)>>)} :
                pure = [fn |-> "ProcessLunID", in |-> lunIDs, out |-> EmptyMap]
       \/ \E records \in SeqsUpTo(
                 { <<[key |-> <<"p","o","r","t","_","n","a","m","e">>,
                      value |-> <<"0","x","1">>],
                     [key |-> <<"n","o","d","e","_","n","a","m","e">>,
                      value |-> <<"0","x","2">>]>>,
                   <<[key |-> <<"p","o","r","t","_","n","a","m","e">>,
                      value |-> <<"0","x","3">>]>> }, 2) \ {<<>>},
             inner \in BOOLEAN, tail \in 0..3 :
             pure = [fn |-> "GetFCHBAs",
                     in |-> [records |-> records, inner |-> inner, tail |-> tail],
                     out |-> EmptyMap]
       \/ \E maxRetry \in 1..MaxAttempts :
             pure = [fn |-> "RunWithRetry", in |-> [maxRetry |-> maxRetry],
                     out |-> [r |-> RetryStart, trace |-> <<>>, ret |-> "none"]]
       \/ \E startErr \in BOOLEAN, stdout \in BOOLEAN, stderr \in BOOLEAN :
             pure = [fn |-> "ExecWithTimeout",
                     in |-> [startErr |-> startErr, stdout |-> stdout,
                             stderr |-> stderr],
                     out |-> [pc |-> "start", exited |-> FALSE, reaped |-> FALSE,
                              timer |-> FALSE, branch |-> "none",
                              reapedAtBranch |-> FALSE, killSent |-> FALSE,
                              copied |-> {}, res |-> "", err |-> "",
                              sent |-> FALSE]]

ApplyRemoveSCSIDevice ==
    /\ pure.fn = "RemoveSCSIDevice"
    /\ pure.out = EmptyMap
    /\ pure' = [pure EXCEPT !.out = RemoveSCSIDevice(pure.in.device,
                                        pure.in.flush, pure.in.env)]
    /\ MainUnchanged

ApplyRescanHosts ==
    /\ pure.fn = "RescanHosts"
    /\ pure.out = EmptyMap
    /\ pure' = [pure EXCEPT !.out =
                   [calls |-> RescanHosts(pure.in.hbas, pure.in.connProperties,
                                          pure.in.fcTransport)]]
    /\ MainUnchanged

ApplyWaitForRW ==
    /\ pure.fn = "WaitForRW"
    /\ pure.out = EmptyMap
    /\ pure' = [pure EXCEPT !.out =
                   WaitForRW(pure.in.deviceWwn,
                             LsblkOutput(pure.in.rows, pure.in.nl),
                             pure.in.lsblkErr, pure.in.mpErr)]
    /\ MainUnchanged

ApplyFlushDeviceIO ==
    /\ pure.fn = "FlushDeviceIO"
    /\ pure.out = EmptyMap
    /\ pure' = [pure EXCEPT !.out =
                   [calls |-> FlushDeviceIO(pure.in.device,
                                 [deviceExists |-> pure.in.deviceExists,
                                  flushOkAt |-> FlushOkAt(pure.in.attempts)])]]
    /\ MainUnchanged

ApplyGetFCHBAs ==
    /\ pure.fn = "GetFCHBAs"
    /\ pure.out = EmptyMap
    /\ pure' = [pure EXCEPT !.out =
                   GetFCHBAs(SystoolOutput(pure.in.records, pure.in.inner,
                                           pure.in.tail))]
    /\ MainUnchanged

ApplyProcessLunID ==
    /\ pure.fn = "ProcessLunID"
    /\ pure.out = EmptyMap
    /\ pure' = [pure EXCEPT !.out = ProcessLunID(pure.in)]
    /\ MainUnchanged

\* RunWithRetry up to its next call of exec or its return: the tick of the
\* ticker (but for the first call), then the return of false or the call,
\* whose answer is the callback's
RetryRound ==
    /\ pure.fn = "RunWithRetry"
    /\ pure.out.ret = "none"
    /\ LET r == pure.out.r
           tick == IF r.phase = "loop" THEN <<"tick">> ELSE <<>>
       IN  IF RetryExhausted(r, pure.in.maxRetry)
             THEN pure' = [pure EXCEPT !.out.trace = @ \o tick,
                                       !.out.ret = "false"]
             ELSE \E ok \in BOOLEAN :
                    pure' = [pure EXCEPT
                               !.out.r = RetryAfterExec(r, ok),
                               !.out.trace = @ \o tick
                                               \o <<IF ok THEN "ok" ELSE "fail">>,
                               !.out.ret = IF ok THEN "true" ELSE "none"]
    /\ MainUnchanged

\* ExecWithTimeout: c.Start(), and the goroutine that waits for the process
ExecStart ==
    /\ pure.fn = "ExecWithTimeout"
    /\ pure.out.pc = "start"
    /\ pure' = IF pure.in.startErr
                 THEN [pure EXCEPT !.out.pc = "returned",
                                   !.out.err = "start failed"]
                 ELSE [pure EXCEPT !.out.pc = "select"]
    /\ MainUnchanged

\* the process ends, by itself or killed
ExecProcessExits ==
    /\ pure.fn = "ExecWithTimeout"
    /\ pure.out.pc # "start"
    /\ ~pure.in.startErr
    /\ ~pure.out.exited
    /\ pure' = [pure EXCEPT !.out.exited = TRUE]
    /\ MainUnchanged

\* the goroutine: c.Process.Wait() returns
ExecWaiter ==
    /\ pure.fn = "ExecWithTimeout"
    /\ pure.out.exited
    /\ ~pure.out.reaped
    /\ pure' = [pure EXCEPT !.out.reaped = TRUE]
    /\ MainUnchanged

\* a mutant of DoneHasRoom: done is made without a buffer
DoneUnbuffered(queued) == FALSE

\* done := make(chan error, 1): a send does not block while fewer than one
\* value is queued
DoneHasRoom(queued) == queued < 1

\* the goroutine: done <- err, the only send on done; the goroutine ends
\* with it
ExecWaiterSends ==
    /\ pure.fn = "ExecWithTimeout"
    /\ pure.out.reaped
    /\ ~pure.out.sent
    /\ DoneHasRoom(0)
    /\ pure' = [pure EXCEPT !.out.sent = TRUE]
    /\ MainUnchanged

\* c.Stdout and c.Stderr are buffers, so Start gives the process pipes and
\* starts a goroutine for each that copies the pipe into the buffer; only
\* c.Wait() waits for them, c.Process.Wait() and the select do not. A step
\* is the moment what the process wrote to a stream has reached its buffer,
\* at the latest when the process has ended and the pipe is at its end.
ExecCopier ==
    /\ pure.fn = "ExecWithTimeout"
    /\ pure.out.pc = "select"
    /\ \E stream \in {"stdout", "stderr"} \ pure.out.copied :
          /\ pure.in[stream]
          /\ pure' = [pure EXCEPT !.out.copied = @ \cup {stream}]
    /\ MainUnchanged

\* a mutant of ExecTimerFires: the timer never fires
ExecTimerNever == FALSE /\ UNCHANGED vars

\* time.After(timeout) delivers
ExecTimerFires ==
    /\ pure.fn = "ExecWithTimeout"
    /\ pure.out.pc = "select"
    /\ ~pure.out.timer
    /\ pure' = [pure EXCEPT !.out.timer = TRUE]
    /\ MainUnchanged

\* the select takes one of its ready cases and ExecWithTimeout returns
\* what the buffers hold at that moment.
\* Signal(os.Kill) sends nothing to a process that Wait has returned for.
ExecSelect ==
    /\ pure.fn = "ExecWithTimeout"
    /\ pure.out.pc = "select"
    /\ \E branch \in {b \in {"timeout", "done"} :
                         \/ b = "timeout" /\ pure.out.timer
                         \/ b = "done" /\ pure.out.sent} :
          pure' = [pure EXCEPT
                     !.out.pc = "returned",
                     !.out.branch = branch,
                     !.out.reapedAtBranch = pure.out.reaped,
                     !.out.killSent = (branch = "timeout" /\ ~pure.out.reaped),
                     !.out.res = IF "stdout" \in pure.out.copied
                                   THEN "stdout" ELSE "",
                     !.out.err = ExecWithTimeout(
                                     [stderr |-> "stderr" \in pure.out.copied,
                                      timedOut |-> branch = "timeout"]).err]
    /\ MainUnchanged

NextUtil ==
    \/ RetryRound
    \/ ExecStart
    \/ ExecProcessExits
    \/ ExecWaiter
    \/ ExecWaiterSends
    \/ ExecCopier
    \/ ExecTimerFires
    \/ ExecSelect
    \/ ApplyRemoveSCSIDevice
    \/ ApplyRescanHosts
    \/ ApplyWaitForRW
    \/ ApplyFlushDeviceIO
    \/ ApplyGetFCHBAs
    \/ ApplyProcessLunID

\* The ticker of RunWithRetry ticks and its callback returns; the timer of
\* ExecWithTimeout fires and its goroutines are scheduled. Nothing makes
\* the process end.
SpecUtil ==
    /\ InitUtil
    /\ [][NextUtil]_vars
    /\ WF_vars(RetryRound)
    /\ WF_vars(ExecStart)
    /\ WF_vars(ExecTimerFires)
    /\ WF_vars(ExecSelect)
    /\ WF_vars(ExecWaiter)
    /\ WF_vars(ExecWaiterSends)

-----------------------------------------------------------------------------
(* Claims about the property normalizer *)

\* the WWN list a descriptor carries: target_wwns, else target_wwn
DescriptorWwns(d) ==
    IF "target_wwns" \in DOMAIN d THEN d["target_wwns"].v
    ELSE IF "target_wwn" \notin DOMAIN d THEN <<>>
    ELSE IF d["target_wwn"].k = "string" THEN <<d["target_wwn"].v>>
    ELSE d["target_wwn"].v

\* the LUN list a descriptor carries: target_luns, else target_lun
DescriptorLuns(d) ==
    IF "target_luns" \in DOMAIN d THEN d["target_luns"].v
    ELSE IF "target_lun" \in DOMAIN d THEN <<d["target_lun"].v>>
    ELSE <<>>

HasUpper(s) == \E i \in 1..Len(s) : s[i] \in {"A", "B", "C", "D", "E", "F"}

Max(a, b) == IF a >= b THEN a ELSE b

Normalized ==
    pure.fn = "addTargetsToConnectionProperties" /\ pure.out # EmptyMap

-----------------------------------------------------------------------------
(* Claims about RequiresFlush *)

Flushed == pure.fn = "RequiresFlush" /\ pure.out # EmptyMap

\* the branch of RequiresFlush that resolves both paths, successfully
BothResolved ==
    /\ Flushed
    /\ pure.in.pathUsed # <<>>
    /\ ~pure.in.wasMultipath
    /\ pure.in.devicePath \in DOMAIN pure.in.links
    /\ pure.in.pathUsed \in DOMAIN pure.in.links

RealDevicePath == pure.in.links[pure.in.devicePath]
RealPathUsed == pure.in.links[pure.in.pathUsed]

\* path is a file directly under /dev
DirectlyUnderDev(path) ==
    /\ Len(path) > 5
    /\ SubSeq(path, 1, 5) = <<"/","d","e","v","/">>
    /\ \A i \in 6..Len(path) : path[i] # "/"

\* C8: RequiresFlush returns false with no error whenever pathUsed is empty
\* and whenever wasMultipath is true, and resolves no filesystem path then.
C8_NoFlushWithoutUsedPathOrWithMultipath ==
    (Flushed /\ (pure.in.pathUsed = <<>> \/ pure.in.wasMultipath)) =>
        /\ pure.out.flush = FALSE
        /\ pure.out.err = ""
        /\ pure.out.resolved = <<>>

\* C8 witness: both cases have been decided, on paths that exist
C8_Witness ==
    /\ Flushed
    /\ pure.in.pathUsed # <<>>
    /\ pure.in.wasMultipath
    /\ pure.in.devicePath \in DOMAIN pure.in.links
    /\ pure.in.pathUsed \in DOMAIN pure.in.links
    /\ pure.out.flush = FALSE

\* C9 as claimed: with both paths resolved, the result is false exactly
\* when the real target of pathUsed is the real target of devicePath and
\* lies directly under /dev.
C9_AsClaimed ==
    BothResolved =>
        (pure.out.flush = FALSE <=>
            (RealPathUsed = RealDevicePath /\ DirectlyUnderDev(RealPathUsed)))

\* C9 amended: with both paths resolved, the result is true with no error
\* whenever the real target of pathUsed is the real target of devicePath,
\* and whenever the real target of pathUsed lies outside /dev.
C9_FlushWhenSameOrOutsideDev ==
    BothResolved =>
        /\ pure.out.err = ""
        /\ RealPathUsed = RealDevicePath => pure.out.flush = TRUE
        /\ ~DirectlyUnderDev(RealPathUsed) => pure.out.flush = TRUE

\* C9 witness: the used path is the device's own path, directly under /dev
C9_Witness ==
    /\ BothResolved
    /\ pure.in.pathUsed # pure.in.devicePath
    /\ RealPathUsed = RealDevicePath
    /\ DirectlyUnderDev(RealPathUsed)
    /\ pure.out.flush = TRUE

\* C10: when a different single path, directly under /dev, was used for
\* I/O, the device needs no flush.
C10_NoFlushWhenOtherPathUsed ==
    (BothResolved /\ DirectlyUnderDev(RealPathUsed)
        /\ RealPathUsed # RealDevicePath) => pure.out.flush = FALSE


-----------------------------------------------------------------------------
(* Claims about ConnectVolume *)

Connecting == cv.op = "ConnectVolume"

\* the by-path entries of the volume on this host
VolumeCandidates == {Entry1(host.prefix), Entry2(host.prefix)}

\* how often RescanHosts has been invoked
RescanCount ==
    Cardinality({i \in 1..Len(calls) : calls[i].op = "RescanHosts"})

Invoked(op) == \E i \in 1..Len(calls) : calls[i].op = op

NotFound ==
    pc = "done" /\ result.err = "fibre Channel volume device not found"

\* the computed candidates that exist and are valid at the i-th poll
HitsAt(i) ==
    {j \in 1..Len(cv.hostDevices) :
        cv.hostDevices[j] \in cv.polls[i].byPath \cap cv.polls[i].valid}

\* a descriptor with two target WWNs and one shared LUN, on two HBAs
TwoPortsOneLun ==
    /\ Connecting
    /\ Len(DescriptorWwns(props)) = 2
    /\ "target_lun" \in DOMAIN props
    /\ Len(cv.hbas) = 2

\* the volume's device appears, valid, between the first and the second
\* poll, having existed neither when the candidates were computed nor at
\* the first poll
AppearsAfterFirstRescan ==
    /\ TwoPortsOneLun
    /\ Len(cv.polls) >= 2
    /\ cv.atCompute \cap VolumeCandidates = {}
    /\ cv.polls[1].byPath \cap VolumeCandidates = {}
    /\ cv.polls[2].byPath \cap cv.polls[2].valid \cap VolumeCandidates # {}

\* C1: when no candidate exists while the candidates are computed nor at
\* the first poll (also when /dev/disk/by-path holds no FC entry then) and
\* one appears, valid, after the first rescan, the second poll finds it,
\* the call does not fail with 'device not found', and RescanHosts has been
\* invoked exactly once.
C1_FoundAfterOneRescan ==
    AppearsAfterFirstRescan =>
        /\ cv.polls[2].found \in VolumeCandidates
        /\ ~NotFound
        /\ RescanCount = 1

\* the multipath wait of ConnectVolume has ended without either path
MultipathPathsMissing ==
    /\ Connecting
    /\ pc = "done"
    /\ cv.hostDevice # <<>>
    /\ cv.useMultipath
    /\ ~cv.env.wwnErr
    /\ cv.env.uuidAfter > WaitForPathAttempts + 1
    /\ cv.env.mapperAfter > WaitForPathAttempts + 1

\* C2: with multipath requested and a valid raw device found, when neither
\* multipath path appears within the bounded wait the call does not fail;
\* it falls back to FindMultipathDevice on the real device name, and if
\* that finds nothing the DeviceInfo has the raw device as its path and no
\* multipath_id.
C2_SinglePathFallback ==
    MultipathPathsMissing =>
        /\ result.err = ""
        /\ \E i \in 1..Len(calls) :
              calls[i] = Event("FindMultipathDevice", cv.deviceName)
        /\ cv.env.mpathInfo = <<>> =>
              /\ "path" \in DOMAIN result.info
              /\ result.info["path"] = cv.deviceName
              /\ "multipath_id" \notin DOMAIN result.info

\* C3: if at the first poll a candidate exists and is valid, polling stops
\* in that attempt, the device whose WWN is resolved is the first such
\* candidate in candidate order, and RescanHosts is never invoked.
C3_FirstCandidateWithoutRescan ==
    (Connecting /\ Len(cv.polls) >= 1 /\ HitsAt(1) # {}) =>
        /\ Len(cv.polls) = 1
        /\ pc \in {"cv_resolve", "done"}
        /\ \E i \in HitsAt(1) :
              /\ \A j \in HitsAt(1) : i <= j
              /\ cv.hostDevice = cv.hostDevices[i]
        /\ \A k \in 1..Len(calls) :
              calls[k].op = "GetSCSIWWN" => calls[k].arg = cv.hostDevice
        /\ RescanCount = 0

\* C3 witness: two candidates were valid at the first poll and the call
\* has returned a DeviceInfo
C3_Witness ==
    /\ Connecting
    /\ pc = "done"
    /\ Len(cv.polls) = 1
    /\ Cardinality(HitsAt(1)) = 2
    /\ Invoked("GetSCSIWWN")
    /\ result.err = ""

\* C4: if no candidate exists and is valid on any polling attempt, the
\* candidates are polled exactly 3 times, the call returns 'device not
\* found', and GetSCSIWWN, multipath discovery and WaitForRW are never
\* invoked.
C4_NotFoundAfterThreePolls ==
    (Connecting /\ Len(cv.polls) >= 1
        /\ \A i \in 1..Len(cv.polls) : HitsAt(i) = {}) =>
        /\ Len(cv.polls) <= DeviceScanAttemptsDefault
        /\ pc \in {"cv_poll", "done"}
        /\ pc = "done" =>
              /\ Len(cv.polls) = DeviceScanAttemptsDefault
              /\ NotFound
        /\ ~Invoked("GetSCSIWWN")
        /\ ~Invoked("FindMultipathDevicePath")
        /\ ~Invoked("FindMultipathDevice")
        /\ ~Invoked("WaitForRW")

\* C4 witness: candidates were computed, none was ever valid, the call has
\* failed
C4_Witness ==
    /\ Connecting
    /\ Len(cv.hostDevices) > 0
    /\ Len(cv.polls) = DeviceScanAttemptsDefault
    /\ \A i \in 1..Len(cv.polls) : HitsAt(i) = {}
    /\ NotFound

-----------------------------------------------------------------------------
(* Claims about validation and removal *)

\* the WWN and LUN lists of the descriptor cannot be reconciled
Irreconcilable(d) ==
    LET W == Len(DescriptorWwns(d))
        L == Len(DescriptorLuns(d))
    IN  ~((L = W /\ W >= 1) \/ (L = 1 /\ W > 1))

\* C6: each of ConnectVolume, DisconnectVolume and ExtendVolume, given a
\* descriptor whose WWN/LUN cardinalities cannot be reconciled, returns a
\* validation error and performs no HBA discovery, no candidate path
\* computation, no flush, no removal and no rescan.
C6_ValidationErrorAndNothingElse ==
    (pc = "done" /\ Irreconcilable(props)) =>
        /\ ~result.panic
        /\ result.err = "validation"
        /\ calls = <<>>

\* DisconnectVolume has validated the descriptor and computed the candidate
\* paths, and has collected no device
NothingCollected ==
    /\ cv.op = "DisconnectVolume"
    /\ pc = "done"
    /\ ~Irreconcilable(props)
    /\ GetVolumePaths(TargetsOf(props), host).err = ""
    /\ cv.devices = <<>>

\* C7: when DisconnectVolume finds no live candidate path, or can collect
\* device information for none of the live paths, it returns 'no device to
\* remove', and no flush command and no write to a delete control file has
\* been issued.
C7_NoDeviceToRemove ==
    NothingCollected =>
        /\ ~result.panic
        /\ result.err = "no device to remove"
        /\ ~Invoked("blockdev --flushbufs")
        /\ ~Invoked("multipath -f")
        /\ ~Invoked("echo 1")

\* C7 witness: a live path whose sg_scan failed, and the error returned
C7_Witness ==
    /\ NothingCollected
    /\ Len(cv.volumePaths) >= 1
    /\ Invoked("sg_scan")
    /\ result.err = "no device to remove"


-----------------------------------------------------------------------------
(* Claims about the classification of the path used *)

\* the paths getHostDevices can synthesize for the volume, with the empty
\* and with the platform prefix
RawByPathFc ==
    {Entry1(<<>>), Entry2(<<>>), Entry1(PlatformPrefix), Entry2(PlatformPrefix)}

\* C11: in removeDevices the path used is classified as multipath exactly
\* when it is not a raw by-path FC device path: by-path paths with an empty
\* or a platform prefix are not multipath, every other path is
C11_MultipathIffNotRawByPath ==
    (cv.op = "DisconnectVolume" /\ pc = "dv_remove")
        => (cv.wasMultipath <=> cv.pathUsed \notin RawByPathFc)

-----------------------------------------------------------------------------
(* Claims about the helpers *)

\* C12: RemoveSCSIDevice for a device whose delete control file does not
\* exist returns no error and performs neither a flush nor a write, whether
\* flush is asked for or not.
C12_AbsentControlFileNoEffect ==
    (pure.fn = "RemoveSCSIDevice" /\ pure.out # EmptyMap
        /\ ~pure.in.env.deleteExists)
        => (pure.out.err = "" /\ pure.out.calls = <<>>)

C12_Witness ==
    /\ pure.fn = "RemoveSCSIDevice"
    /\ pure.out # EmptyMap
    /\ ~pure.in.env.deleteExists
    /\ pure.in.flush
    /\ pure.in.env.deviceExists
    /\ pure.in.env.echoErr
    /\ pure.out.calls = <<>>

\* C13: RunWithRetry with maxRetry >= 1 calls exec at once, without waiting
\* for the ticker; it calls exec at most maxRetry times; it returns true
\* right after the first call that answers true and calls no more; it
\* returns false after exactly maxRetry calls that all answered false; and
\* it always returns.
C13_RunWithRetry ==
    /\ [](pure.fn = "RunWithRetry" =>
            LET t == pure.out.trace
                execs == Cardinality({i \in DOMAIN t : t[i] \in {"ok", "fail"}})
            IN  /\ t # <<>> => t[1] # "tick"
                /\ execs <= pure.in.maxRetry
                /\ \A i \in DOMAIN t :
                      t[i] = "ok" => (i = Len(t) /\ pure.out.ret = "true")
                /\ pure.out.ret = "true" => (t # <<>> /\ t[Len(t)] = "ok")
                /\ pure.out.ret = "false" =>
                      (execs = pure.in.maxRetry /\ t[Len(t)] = "tick"))
    /\ (pure.fn = "RunWithRetry")
          ~> (pure.fn = "RunWithRetry" /\ pure.out.ret # "none")

C13_Witness ==
    /\ pure.fn = "RunWithRetry"
    /\ pure.in.maxRetry = MaxAttempts
    /\ pure.out.ret = "false"
    /\ Len(pure.out.trace) = 2 * MaxAttempts

\* C14: ExecWithTimeout returns once the process is started, whether or not
\* the process ends. When the timeout is taken and Wait has not returned
\* for the process, the kill is sent and the call returns without waiting
\* for the process; when Wait has returned for the process before, no kill
\* is sent.
C14_ExecWithTimeoutReturns ==
    /\ [](pure.fn = "ExecWithTimeout" =>
            /\ (pure.out.branch = "timeout" /\ ~pure.out.reapedAtBranch)
                  => pure.out.killSent
            /\ pure.out.reapedAtBranch => ~pure.out.killSent
            /\ pure.out.branch = "done"
                  => (pure.out.reapedAtBranch /\ ~pure.out.killSent)
            /\ pure.out.killSent => pure.out.pc = "returned")
    /\ (pure.fn = "ExecWithTimeout" /\ pure.out.pc = "select")
          ~> (pure.fn = "ExecWithTimeout" /\ pure.out.pc = "returned")

C14_Witness ==
    /\ pure.fn = "ExecWithTimeout"
    /\ pure.out.pc = "returned"
    /\ pure.out.killSent
    /\ ~pure.out.exited

\* the HBA finds the target port of at least one target of the descriptor
ResolvesNarrow(hba) ==
    \E i \in DOMAIN pure.in.connProperties["targets"].v :
        <<HostNumber(hba.host_device), pure.in.connProperties["targets"].v[i][1]>>
            \in DOMAIN pure.in.fcTransport

\* the scan control file of the HBA is written
ScanWritten(hba, e) ==
    e.op = "scan" /\ HasPrefix(e.arg, hba.host_device \o <<":">>)

\* a wildcard triple is written to a scan control file
WildcardWritten(e) ==
    e.op = "scan" /\ Contains(e.arg, <<":", "-", " ", "-", " ">>)

RescanHostsApplied == pure.fn = "RescanHosts" /\ pure.out # EmptyMap

\* C15: RescanHosts with the wildcard scan permitted (enable_wildcard_scan
\* absent or true): when at least one HBA resolves a narrow triple, no
\* wildcard triple is written to any HBA, in whatever order the HBAs come.
C15_NarrowExcludesWildcard ==
    (/\ RescanHostsApplied
     /\ "enable_wildcard_scan" \in DOMAIN pure.in.connProperties
            => pure.in.connProperties["enable_wildcard_scan"].v
     /\ \E i \in DOMAIN pure.in.hbas : ResolvesNarrow(pure.in.hbas[i]))
        => \A j \in DOMAIN pure.out.calls : ~WildcardWritten(pure.out.calls[j])

\* C16: RescanHosts with enable_wildcard_scan = false writes no wildcard
\* triple, and writes nothing to an HBA that resolves nothing.
C16_NoWildcardWhenForbidden ==
    (/\ RescanHostsApplied
     /\ "enable_wildcard_scan" \in DOMAIN pure.in.connProperties
     /\ ~pure.in.connProperties["enable_wildcard_scan"].v)
        => \A j \in DOMAIN pure.out.calls :
              /\ ~WildcardWritten(pure.out.calls[j])
              /\ \A i \in DOMAIN pure.in.hbas :
                    ~ResolvesNarrow(pure.in.hbas[i])
                        => ~ScanWritten(pure.in.hbas[i], pure.out.calls[j])

C16_Witness ==
    /\ RescanHostsApplied
    /\ "enable_wildcard_scan" \in DOMAIN pure.in.connProperties
    /\ ~pure.in.connProperties["enable_wildcard_scan"].v
    /\ pure.in.hbas = <<HBA1, HBA2>>
    /\ ~ResolvesNarrow(HBA1)
    /\ ResolvesNarrow(HBA2)
    /\ \E j \in DOMAIN pure.out.calls : ScanWritten(HBA2, pure.out.calls[j])

\* C17: WaitForRW, for every output of lsblk, the output ending with a
\* newline included: when no row has a name containing the WWN and the
\* read-only flag 1, it succeeds without running multipath -r; otherwise it
\* runs multipath -r exactly once and succeeds exactly when that succeeds.
C17_WaitForRW ==
    (pure.fn = "WaitForRW" /\ pure.out # EmptyMap /\ ~pure.in.lsblkErr)
        => IF \E i \in DOMAIN pure.in.rows :
                 /\ Contains(pure.in.rows[i].name, pure.in.deviceWwn)
                 /\ pure.in.rows[i].ro = <<"1">>
             THEN /\ Len(pure.out.calls) = 1
                  /\ pure.out.calls[1].op = "multipath -r"
                  /\ pure.out.err = "" <=> ~pure.in.mpErr
             ELSE /\ pure.out.calls = <<>>
                  /\ pure.out.err = ""

\* C19: in FlushDeviceIO an attempt of blockdev --flushbufs that is stuck
\* and ended by the timeout counts as failed and is followed by another
\* attempt, up to 3 attempts; the retry stops early only after an attempt
\* that completed by itself without error.
C19_StuckFlushRetried ==
    (pure.fn = "FlushDeviceIO" /\ pure.out # EmptyMap /\ pure.in.deviceExists)
        => LET n == Len(pure.out.calls)
               completed(i) == /\ ~pure.in.attempts[i].timedOut
                               /\ ~pure.in.attempts[i].stderr
           IN  /\ n \in 1..3
               /\ \A i \in 1..(n - 1) : ~completed(i)
               /\ n < 3 => completed(n)

\* the normal form of the LUN n: n itself below 256, else the extended form
\* '0x' + 4 hex digits of n mod 2^16 + 4 hex digits of (n div 2^16) mod 2^16
\* + '00000000'
NormalLun(n) ==
    IF n < 256 THEN IntVal(n)
    ELSE Str(<<"0", "x">> \o Hex4(n % 65536) \o Hex4((n \div 65536) % 65536)
             \o <<"0", "0", "0", "0", "0", "0", "0", "0">>)

\* C20: ProcessLunID leaves an integer LUN 0 <= n < 256 unchanged and turns
\* an integer LUN n >= 256 into the extended form; a string LUN is accepted
\* exactly when it parses as an integer, and is then normalized by the same
\* rule; a string that is not a number fails.
C20_ProcessLunID ==
    (pure.fn = "ProcessLunID" /\ pure.out # EmptyMap)
        => /\ pure.in.k = "int" =>
                 (pure.out.err = "" /\ pure.out.lun = NormalLun(pure.in.v))
           /\ pure.in.k = "string" =>
                 /\ pure.out.err = "" <=> Atoi(pure.in.v).ok
                 /\ Atoi(pure.in.v).ok =>
                        pure.out.lun = NormalLun(Atoi(pure.in.v).n)

-----------------------------------------------------------------------------
(* Claims about the wait for a writable multipath device *)

\* ConnectVolume has returned after a multipath discovery in which every
\* call of WaitForRW failed
NeverWritable ==
    /\ cv.op = "ConnectVolume"
    /\ pc = "done"
    /\ cv.env # EmptyMap
    /\ cv.env.rwAfter > WaitForRWAttempts

\* C23: when ConnectVolume with multipath requested has found a multipath
\* device, WaitForRW is performed whenever the access mode is not 'ro', a
\* descriptor without access_mode included; it is skipped only for 'ro'.
C23_WaitUnlessReadOnly ==
    (/\ Connecting
     /\ pc = "done"
     /\ cv.useMultipath
     /\ result.err = ""
     /\ "multipath_id" \in DOMAIN result.info)
        => (Invoked("WaitForRW") <=> Get(props, "access_mode") # Str(<<"r","o">>))

\* C18: when WaitForRW fails on every attempt, it is invoked at most 5
\* times, and ConnectVolume still returns a successful DeviceInfo that
\* holds the path resolved for the multipath device.
C18_StillReadOnlyContinues ==
    NeverWritable =>
        /\ Cardinality({i \in DOMAIN calls : calls[i].op = "WaitForRW"}) <= 5
        /\ ~result.panic
        /\ result.err = ""
        /\ result.info.type = <<"b","l","o","c","k">>
        /\ result.info.path \in
              {FindMultipathDevicePath(VolumeWwn, 1, 1).path,
               DevMapperDir \o VolumeWwn, MapperMpatha, cv.deviceName}
        /\ result.info.path # <<>>

C18_Witness ==
    /\ NeverWritable
    /\ Cardinality({i \in DOMAIN calls : calls[i].op = "WaitForRW"}) = 5
    /\ result.err = ""
    /\ result.info.path = DevMapperDir \o VolumeWwn

-----------------------------------------------------------------------------
(* Claims about the HBA records *)

\* C21: GetFCHBAs, for an output of the two header lines and k >= 1 records
\* of key = "value" lines separated by two empty lines, returns exactly the
\* k HBAs in record order, each with exactly the pairs of its record,
\* whether or not empty lines follow the last record and whether or not a
\* single empty line stands inside a record.
C21_GetFCHBAs ==
    (pure.fn = "GetFCHBAs" /\ pure.out # EmptyMap)
        => /\ ~pure.out.panic
           /\ Len(pure.out.hbas) = Len(pure.in.records)
           /\ \A i \in DOMAIN pure.in.records :
                 LET r == pure.in.records[i]
                 IN  pure.out.hbas[i] =
                        [k \in {r[j].key : j \in DOMAIN r} |->
                            r[CHOOSE j \in DOMAIN r : r[j].key = k].value]

-----------------------------------------------------------------------------
(* Claims about the order of the calls *)

\* C22: in ConnectVolume every invocation of RescanHosts comes right after
\* a polling attempt that found no valid candidate and is followed by a
\* further polling attempt: none before the first attempt, none after the
\* last.
C22_RescanBetweenPolls ==
    (Connecting /\ pc = "done")
        => \A i \in DOMAIN calls :
              calls[i].op = "RescanHosts"
                 => /\ i > 1
                    /\ calls[i - 1] = Event("poll", <<>>)
                    /\ \E k \in (i + 1)..Len(calls) : calls[k].op = "poll"

\* the removal of the device removeDevices looked at last has failed:
\* the write to its delete control file, or RequiresFlush
LastRemovalFailed ==
    /\ cv.op = "DisconnectVolume"
    /\ cv.env # EmptyMap
    /\ \/ cv.env.deleteExists /\ cv.env.echoErr
       \/ /\ pc = "done"
          /\ cv.next <= Len(cv.devices)
          /\ RequiresFlush(HostLinks(host), cv.devices[cv.next].device,
                           cv.pathUsed, cv.wasMultipath).err # ""

\* C24: DisconnectVolume collects the device information of all live paths
\* before any removal starts; when RequiresFlush or RemoveSCSIDevice fails
\* for a collected device, DisconnectVolume returns an error and no write
\* to a delete control file is issued for a device after it.
C24_RemovalStopsAtFailure ==
    /\ (cv.op = "DisconnectVolume" /\ Invoked("RequiresFlush"))
          => /\ Cardinality({i \in DOMAIN calls : calls[i].op = "sg_scan"})
                   = Len(cv.volumePaths)
             /\ \A i, j \in DOMAIN calls :
                   (/\ calls[i].op = "sg_scan"
                    /\ calls[j].op \in {"RequiresFlush", "blockdev --flushbufs",
                                        "echo 1"})
                      => i < j
    /\ LastRemovalFailed
          => /\ pc = "done"
             /\ ~result.panic
             /\ result.err # ""
             /\ cv.next <= Len(cv.devices)
             /\ \A j \in (cv.next + 1)..Len(cv.devices) :
                   \A i \in DOMAIN calls :
                      calls[i] # Event("echo 1",
                                       DeleteControlFile(cv.devices[j].device))

C24_Witness ==
    /\ LastRemovalFailed
    /\ cv.env.echoErr
    /\ cv.next = 1
    /\ Len(cv.devices) = 2
    /\ Cardinality({i \in DOMAIN calls : calls[i].op = "echo 1"}) = 1

\* C25: RemoveSCSIDevice with flush = true on a device whose delete control
\* file exists makes every blockdev --flushbufs attempt before it writes
\* '1' to the delete control file, and writes it at most once in the call.
C25_FlushBeforeDelete ==
    (pure.fn = "RemoveSCSIDevice" /\ pure.out # EmptyMap
        /\ pure.in.flush /\ pure.in.env.deleteExists)
        => LET log == pure.out.calls
               writes == {i \in DOMAIN log : log[i].op = "echo 1"}
           IN  /\ Cardinality(writes) <= 1
               /\ \A i \in writes :
                     log[i] = Event("echo 1", DeleteControlFile(pure.in.device))
               /\ \A i \in DOMAIN log : \A j \in writes :
                     log[i].op = "blockdev --flushbufs" => i < j

C25_Witness ==
    /\ pure.fn = "RemoveSCSIDevice"
    /\ pure.out # EmptyMap
    /\ pure.in.flush
    /\ pure.in.env.deleteExists
    /\ pure.in.env.deviceExists
    /\ Len(pure.out.calls) = 3
    /\ pure.out.calls[1].op = "blockdev --flushbufs"
    /\ pure.out.calls[2].op = "blockdev --flushbufs"
    /\ pure.out.calls[3].op = "echo 1"

-----------------------------------------------------------------------------
(* Claims about DoExtendVolume *)

\* DoExtendVolume has run to its end with multipath enabled and has found
\* the mapper path of the volume
ExtendedOverMapper ==
    /\ cv.op = "ExtendVolume"
    /\ pc = "done"
    /\ cv.env # EmptyMap
    /\ cv.useMultipath
    /\ cv.env.fails # "scsi_id"
    /\ FindMultipathDevicePath(VolumeWwn, cv.env.uuidAfter,
                               cv.env.mapperAfter).err = ""
    /\ FindMultipathDevicePath(VolumeWwn, cv.env.uuidAfter,
                               cv.env.mapperAfter).path # <<>>

\* C26: DoExtendVolume with multipath and a mapper path found: the rescan
\* writes of the volume paths all precede multipathd reconfigure, which
\* precedes multipathd resize map; when the output of resize map contains
\* "fail" an error is returned, and a call that returns no error returns
\* the size of the mapper device queried after the resize.
C26_ReconfigureThenResize ==
    ExtendedOverMapper =>
        LET at(op) == {i \in DOMAIN calls : calls[i].op = op}
            mapper == FindMultipathDevicePath(VolumeWwn, cv.env.uuidAfter,
                                              cv.env.mapperAfter).path
        IN  /\ Cardinality(at("multipathd reconfigure")) = 1
            /\ Cardinality(at("multipathd resize map")) <= 1
            /\ \A i \in at("echo 1") : \A j \in at("multipathd reconfigure") :
                  i < j
            /\ \A i \in at("multipathd reconfigure") :
                  \A j \in at("multipathd resize map") : i < j
            /\ cv.env.fails = "resize says fail" =>
                  (result.err # "" /\ at("multipathd resize map") # {})
            /\ (cv.env.fails \in {"none", "new size"} \/ result.err = "") =>
                  /\ Len(calls) >= 2
                  /\ calls[Len(calls)] = Event("blockdev --getsize64", mapper)
                  /\ calls[Len(calls) - 1].op = "multipathd resize map"
            /\ result.err = "" => cv.newSize = cv.env.size

C26_Witness ==
    /\ ExtendedOverMapper
    /\ result.err = ""
    /\ Cardinality({i \in DOMAIN calls : calls[i].op = "echo 1"}) = 2
    /\ cv.newSize = 2

C26_WitnessFail ==
    /\ ExtendedOverMapper
    /\ cv.env.fails = "resize says fail"
    /\ result.err # ""

\* C27: in DoExtendVolume a failing device-info query or size query on one
\* volume path neither ends the call nor keeps a later path from its rescan
\* write: every volume path is processed in turn, a path is written to
\* exactly when its own device-info query and first size query succeed, and
\* the call goes on to the WWN of the first path.
C27_PathFailuresSkipped ==
    (cv.op = "ExtendVolume" /\ cv.volumePaths # <<>>) =>
        LET scans == SelectSeq(calls, LAMBDA e : e.op = "sg_scan")
            writes == SelectSeq(calls, LAMBDA e : e.op = "echo 1")
            written == {k \in DOMAIN cv.answers :
                           ~cv.answers[k].sgErr /\ ~cv.answers[k].sizeErr}
        IN  /\ Len(cv.answers) = cv.next - 1
            /\ Len(scans) = Len(cv.answers)
            /\ \A k \in DOMAIN scans : scans[k].arg = cv.volumePaths[k]
            /\ Len(writes) = Cardinality(written)
            /\ pc = "done" =>
                  /\ Len(cv.answers) = Len(cv.volumePaths)
                  /\ Invoked("GetSCSIWWN")

C27_Witness ==
    /\ cv.op = "ExtendVolume"
    /\ pc = "done"
    /\ Len(cv.volumePaths) = 2
    /\ Len(cv.answers) = 2
    /\ cv.answers[1].sgErr
    /\ ~cv.answers[2].sgErr /\ ~cv.answers[2].sizeErr
    /\ Cardinality({i \in DOMAIN calls : calls[i].op = "echo 1"}) = 1
    /\ result.err = ""

C27_WitnessSize ==
    /\ cv.op = "ExtendVolume"
    /\ pc = "done"
    /\ Len(cv.answers) = 2
    /\ cv.answers[1].sizeErr
    /\ ~cv.answers[2].sgErr /\ ~cv.answers[2].sizeErr
    /\ Cardinality({i \in DOMAIN calls : calls[i].op = "echo 1"}) = 1

-----------------------------------------------------------------------------
(* Claims about the initiator target map *)

\* C28: RescanHosts with a normalized descriptor that carries an
\* initiator_target_map and the initiator_target_lun_map derived from it:
\* every triple written to the scan control file of an HBA belongs to a
\* target WWPN the map lists under the port_name of that HBA, and an HBA
\* whose port_name is not a key of the map has nothing written to its scan
\* control file.
C28_ScansFollowInitiatorMap ==
    (RescanHostsApplied
        /\ "initiator_target_map" \in DOMAIN pure.in.connProperties
        /\ "initiator_target_lun_map" \in DOMAIN pure.in.connProperties)
        => LET cp == pure.in.connProperties
               itMap == cp["initiator_target_map"].v
               targets == cp["targets"].v
               listed(hba) ==
                   IF hba.port_name \in DOMAIN itMap
                     THEN {itMap[hba.port_name][i] :
                              i \in DOMAIN itMap[hba.port_name]}
                     ELSE {}
               triple(hba, t) ==
                   LET at == <<HostNumber(hba.host_device), t[1]>>
                   IN  hba.host_device \o <<":">> \o pure.in.fcTransport[at][1]
                       \o <<" ">> \o pure.in.fcTransport[at][2]
                       \o <<" ">> \o t[2]
           IN  \A h \in DOMAIN pure.in.hbas :
               \A i \in DOMAIN pure.out.calls :
                  ScanWritten(pure.in.hbas[h], pure.out.calls[i])
                     => /\ pure.in.hbas[h].port_name \in DOMAIN itMap
                        /\ \/ WildcardWritten(pure.out.calls[i])
                           \/ \E k \in DOMAIN targets :
                                 /\ targets[k][1] \in listed(pure.in.hbas[h])
                                 /\ <<HostNumber(pure.in.hbas[h].host_device),
                                      targets[k][1]>>
                                        \in DOMAIN pure.in.fcTransport
                                 /\ pure.out.calls[i].arg
                                       = triple(pure.in.hbas[h], targets[k])

-----------------------------------------------------------------------------
(* Claims about the output of a command *)

\* C29: ExecWithTimeout for a command that ends before the timeout returns
\* everything the process wrote to stdout, and an error exactly when the
\* process wrote to stderr: the buffers are read only after all the output
\* of the process has been copied into them, however the waiter, the
\* copiers and the caller interleave.
C29_OutputCompleteAtReturn ==
    (pure.fn = "ExecWithTimeout" /\ pure.out.pc = "returned"
        /\ pure.out.branch = "done")
        => /\ {s \in {"stdout", "stderr"} : pure.in[s]} \subseteq pure.out.copied
           /\ pure.out.res = "stdout" <=> pure.in.stdout
           /\ pure.out.err # "" <=> pure.in.stderr

-----------------------------------------------------------------------------
(* Claims about the multipath guard of DisconnectVolume *)

\* C30: in DisconnectVolume the mapper path variable is empty every time
\* the multipath guard is evaluated, so that GetSCSIWWN,
\* FindMultipathDevicePath and FlushMultipathDevice are never called by it,
\* whatever the multipath flag, the number of live paths and their
\* validity.
C30_MultipathGuardNeverPasses ==
    cv.op = "DisconnectVolume" =>
        /\ cv.mPathPath = <<>>
        /\ ~Invoked("GetSCSIWWN")
        /\ ~Invoked("FindMultipathDevicePath")
        /\ ~Invoked("multipath -f")

C30_Witness ==
    /\ cv.op = "DisconnectVolume"
    /\ cv.useMultipath
    /\ pc = "dv_remove"
    /\ Len(cv.volumePaths) = 2
    /\ \A i \in DOMAIN cv.volumePaths : CheckValidDevice(host, cv.volumePaths[i])
    /\ Len(cv.devices) = 2
    /\ cv.mPathPath = <<>>

-----------------------------------------------------------------------------
(* Claims about the removal after a failed flush *)

\* C31: RemoveSCSIDevice with flush = true, for a device whose node and
\* delete control file exist: '1' is written to the delete control file
\* only after a flush attempt has succeeded; when all 3 flush attempts fail
\* the device is not removed and RemoveSCSIDevice returns an error.
C31_NoRemovalAfterFailedFlush ==
    (pure.fn = "RemoveSCSIDevice" /\ pure.out # EmptyMap
        /\ pure.in.flush /\ pure.in.env.deleteExists
        /\ pure.in.env.deviceExists)
        => LET log == pure.out.calls
               written == \E i \in DOMAIN log : log[i].op = "echo 1"
               flushed == pure.in.env.flushOkAt <= FlushAttempts
           IN  /\ written => flushed
               /\ ~flushed => (pure.out.err # "" /\ ~written)

-----------------------------------------------------------------------------
(* Claims about normalizing twice *)

\* the normalizer has been applied to its own output
NormalizedAgain == Normalized /\ "again" \in DOMAIN pure.out

\* C32: addTargetsToConnectionProperties applied to a descriptor it has
\* normalized succeeds and gives the same targets, the same lower-cased
\* WWNs, the same initiator_target_map and the same
\* initiator_target_lun_map: the descriptor is returned as it was given.
C32_NormalizerIdempotent ==
    NormalizedAgain =>
        /\ pure.out.again.err = ""
        /\ \A key \in {"targets", "target_wwn", "target_wwns",
                       "initiator_target_map", "initiator_target_lun_map"} :
              Get(pure.out.again.ret, key) = Get(pure.out.ret, key)
        /\ pure.out.again.ret = pure.out.ret
        /\ pure.out.again.arg = pure.out.ret

C32_Witness ==
    /\ NormalizedAgain
    /\ Get(pure.in, "target_wwn") = Str(W1U)
    /\ Get(pure.in, "target_wwns") = Nil
    /\ Get(pure.out.ret, "target_wwn") = StrList(<<W1L>>)
    /\ "initiator_target_map" \in DOMAIN pure.in
    /\ INI1L \in DOMAIN pure.in["initiator_target_map"].v
    /\ Get(pure.out.again.ret, "initiator_target_lun_map")
          = Get(pure.out.ret, "initiator_target_lun_map")
    /\ Get(pure.out.ret, "initiator_target_lun_map") # Nil

-----------------------------------------------------------------------------
(* Claims about the goroutine of ExecWithTimeout *)

\* C33: in ExecWithTimeout the send of the waiting goroutine on done never
\* blocks, whether the timeout or the end of the process is taken by the
\* select: once Wait has returned the send can be made, and once the
\* process has ended the goroutine comes to its end.
C33_WaiterNeverBlocked ==
    /\ [](pure.fn = "ExecWithTimeout" =>
            /\ (pure.out.reaped /\ ~pure.out.sent) => DoneHasRoom(0)
            /\ pure.out.sent => pure.out.reaped
            /\ pure.out.reaped => pure.out.exited)
    /\ (pure.fn = "ExecWithTimeout" /\ pure.out.exited)
          ~> (pure.fn = "ExecWithTimeout" /\ pure.out.sent)

C33_Witness ==
    /\ pure.fn = "ExecWithTimeout"
    /\ pure.out.pc = "returned"
    /\ pure.out.branch = "timeout"
    /\ pure.out.killSent
    /\ pure.out.sent

C33_WitnessDone ==
    /\ pure.fn = "ExecWithTimeout"
    /\ pure.out.pc = "returned"
    /\ pure.out.branch = "done"
    /\ pure.out.sent

=============================================================================
